---- MODULE Spec2Model ----
(***************************************************************************)
(* Match & wager engine of ring-channel: match creation, placement         *)
(* updates, status updates with settlement, and wager upserts, together    *)
(* with the Room's current-match cell and the events the handlers publish. *)
(*                                                                         *)
(* Handlers whose statements run inside one store transaction (create,     *)
(* update, wager create) are one step each: the store serialises them.     *)
(* The placement handler runs its statements directly on the pool, without *)
(* a transaction, and is two steps: the status check and the write.        *)
(*                                                                         *)
(* Option<T> is a set with at most one element: {} is None, {v} is Some(v).*)
(***************************************************************************)
EXTENDS Integers, Sequences, FiniteSets, TLC

(* ------------------------------ bounds -------------------------------- *)

\* The clock is read in whole seconds and stops at MaxTime where the wager
\* bot is enabled, at MaxClock in the specification of the bet window.
MaxTime == 1

MaxClock == 4

\* Spectator accounts present in the user table.
Users == {"u1", "u2", "u3"}

\* The account of the wager bot (config.server.bot.username).
Bot == "bot"

\* The rows of the user table.
Accounts == Users \cup {Bot}

\* Users carrying UserFlags::UNLIMITED_WAGERS.
Unlimited == {"u3", Bot}

\* Balance the accounts of the user table hold at the start.
StartMobiums == 100

\* UUIDs that Uuid::new_v4 may hand out.
Battles == {"m1", "m2"}

\* Short ids of the registered players.
Players == {"p1", "p2"}

\* bet_time values of the create requests (seconds).
BetTimes == {0, 1}

\* Participant lists of the create requests; "zz" is registered nowhere.
ParticipantLists ==
    { << [id |-> "p1", team |-> "red"], [id |-> "p2", team |-> "blue"] >>,
      << [id |-> "p1", team |-> "red"], [id |-> "zz", team |-> "blue"] >> }

\* The participant list without a missing player.
ValidList == << [id |-> "p1", team |-> "red"], [id |-> "p2", team |-> "blue"] >>

\* mobiums values of the wager requests.
WagerAmounts == {-1, 0, 50, 100, 200}

\* Placement requests that may be between their check and their write.
MaxInFlight == 1

\* The mobiums each user wagers where the amount is not varied.
Stake == [ u \in Users |-> IF u = "u2" THEN 50 ELSE 100 ]

\* Values of the session csrf token.
CsrfTokens == {"A", "B"}

(* ------------------------- program constants -------------------------- *)

Teams == {"red", "blue"}

Statuses == {"ongoing", "concluded", "cancelled"}

\* Duration::seconds(3), the wiggle room after closed_at.
Grace == 3

\* The balance a bailout resets to.
BailoutMobiums == 100

\* config.server.bot.wager_amount, as WagerBotConfig::default sets it.
BotWagerAmount == 400

(* ------------------------------- state -------------------------------- *)

VARIABLES
    now,             \* Utc::now(), seconds
    battle,          \* battle table with its participant rows, by uuid
    wager,           \* wager table, by <<user, uuid>>
    user,            \* user table: mobiums and bailout_count
    session,         \* session data of each user: the csrf token
    placing,         \* placement requests between their check and write
    current_battle,  \* RoomState::current_battle
    published,       \* events the last handler sent on the Room channel
    response,        \* handler and result of the last request
    bot_enabled,     \* config.server.bot.enabled
    tx,              \* RoomState::tx, the broadcast channel of the Room
    socket,          \* WebSocketState of the task that serves one client
    mmr,             \* player ratings, historic ratings and rating periods
    job,             \* the rating period job of the scheduler
    lossy,           \* a call of to_username_lossy: its input and locals
    calls            \* calls of Room::update_battle: cell writes, sends due

vars == << now, battle, wager, user, session, placing, current_battle,
           published, response, bot_enabled, tx, socket, mmr, job, lossy, calls >>

(* --------------------------- pure functions --------------------------- *)

None == {}

Some(v) == {v}

\* The element of a one-element set: Option::unwrap.
Unwrap(o) == CHOOSE v \in o : TRUE

\* u8::from(PlayerTeam): Red = 0, Blue = 1.
TeamToU8(team) == IF team = "red" THEN 0 ELSE 1

\* Mutant: the discriminants are read the other way round.
TeamFromU8Swapped(n) == IF n = 0 THEN "blue" ELSE "red"

\* PlayerTeam::try_from(u8), for the values the victor column holds.
TeamFromU8(n) == IF n = 0 THEN "red" ELSE "blue"

RECURSIVE SumOver(_, _)
SumOver(S, f) ==
    IF S = {} THEN 0
    ELSE LET x == CHOOSE y \in S : TRUE
         IN  f[x] + SumOver(S \ {x}, f)

\* The users with a wager row on match m in wager table w.
WagerUsers(w, m) == { u \in Accounts : << u, m >> \in DOMAIN w }

\* get_total_pot: SELECT SUM(w.mobiums) over the rows of one team, read
\* into a plain i64 (the SUM over no rows reads as 0).
get_total_pot(w, m, team) ==
    LET rows == { u \in WagerUsers(w, m) : w[<< u, m >>].victor = TeamToU8(team) }
    IN  SumOver(rows, [u \in rows |-> w[<< u, m >>].mobiums])

\* ORDER BY finish_time ASC: NULL sorts before every value.
FinishLeq(a, b) ==
    \/ a = None
    \/ a # None /\ b # None /\ Unwrap(a) <= Unwrap(b)

\* Mutant: the rows marked no_contest are not left out.
WinnerTeamsOfAllRows(ps) ==
    { ps[i].team : i \in { j \in DOMAIN ps :
          \A k \in DOMAIN ps : FinishLeq(ps[j].finish_time, ps[k].finish_time) } }

\* The teams that "ORDER BY finish_time ASC LIMIT 1" over the rows with
\* NOT no_contest may return: the team of any row with a least finish_time.
WinnerTeams(ps) ==
    LET cand == { i \in DOMAIN ps : ~ ps[i].no_contest }
    IN  { ps[i].team : i \in { j \in cand :
              \A k \in cand : FinishLeq(ps[j].finish_time, ps[k].finish_time) } }

\* Mutant: the division is done before the multiplication.
MobiumsChangeDivFirst(row, red_pot, blue_pot, winner) ==
    IF row.victor = winner
    THEN LET pot == IF row.victor = "red" THEN red_pot ELSE blue_pot
         IN  ((red_pot + blue_pot) \div pot) * row.mobiums - row.mobiums
    ELSE - row.mobiums

\* The mobiums_change of one wager row (battle.rs:128-141).
MobiumsChangeOf(row, red_pot, blue_pot, winner) ==
    IF row.victor = winner
    THEN LET pot == IF row.victor = "red" THEN red_pot ELSE blue_pot
             pie_slice == ((red_pot + blue_pot) * row.mobiums) \div pot
         IN  pie_slice - row.mobiums
    ELSE - row.mobiums

\* Mutant: no bailout.
NeverBailout(u, new_mobiums) == FALSE

\* "if new_mobiums <= 0" (battle.rs:147).
NeedsBailout(u, new_mobiums) == new_mobiums <= 0

\* The user row and the MobiumsChange message one wager row leads to
\* (battle.rs:143-176).
SettleRow(u, row, urow, red_pot, blue_pot, winner) ==
    LET computed == urow.mobiums + MobiumsChangeOf(row, red_pot, blue_pot, winner)
        bailout == NeedsBailout(u, computed)
        new_mobiums == IF bailout THEN BailoutMobiums ELSE computed
    IN  [ row |-> [ mobiums |-> new_mobiums,
                    bailout_count |-> urow.bailout_count + (IF bailout THEN 1 ELSE 0) ],
          event |-> [ type |-> "mobiums-change", user_id |-> u,
                      mobiums |-> new_mobiums, bailout |-> bailout ] ]

\* A wager row as WagerQuery reads it: victor through try_from = "u8".
WagerQuery(w, u, m) ==
    [ victor |-> TeamFromU8(w[<< u, m >>].victor), mobiums |-> w[<< u, m >>].mobiums ]

\* The orders in which a query without ORDER BY may return the rows of S.
RowOrders(S) ==
    { o \in [1 .. Cardinality(S) -> S] :
          \A i, j \in 1 .. Cardinality(S) : i # j => o[i] # o[j] }

\* BattleData handed to the Room: the schema and the participants.
BattleData(m, b) ==
    [ uuid |-> m, status |-> b.status, closed_at |-> b.closed_at,
      participants |-> b.participants ]

UpdateBattleEvent(m, b) == [ type |-> "update-battle", battle |-> BattleData(m, b) ]

\* RoomEvent::UpdateBattle of a BattleData.
UpdateBattleOf(data) == [ type |-> "update-battle", battle |-> data ]

\* Mutant: only the first match a socket sees is new.
IsNewBattleOnlyFirst(held, uuid) == held = None

\* "if old_battle.as_ref().map(|b| &b.uuid) != Some(&battle.uuid)"
\* (room/mod.rs:246).
IsNewBattle(held, uuid) == held # Some(uuid)

\* Mutant: every logged-in socket is a recipient.
IsRecipientLoggedIn(socket_user, user_id) == socket_user # None

\* "if Some(user_id) == state.user.as_ref().map(|u| u.identity())"
\* (room/mod.rs:258).
IsRecipient(socket_user, user_id) == Some(user_id) = socket_user

\* handle_server_event (room/mod.rs:236-266): the op a socket sends for a
\* Room event, given the uuid of the match it holds and its user (both
\* Options); "none" when it sends nothing.
handle_server_event(held, socket_user, ev) ==
    IF ev.type = "update-battle"
    THEN IF IsNewBattle(held, ev.battle.uuid) THEN "new-battle" ELSE "battle-update"
    ELSE IF ev.type = "new-message" THEN "new-message"
    ELSE IF ev.type = "wager-update" THEN "wager-update"
    ELSE IF ev.type = "mobiums-change" /\ IsRecipient(socket_user, ev.user_id)
         THEN "mobiums-change"
    ELSE "none"

Response(op, code) == [ op |-> op, code |-> code ]


\* Mutant: only a concluded match counts as closed.
AlreadyConcludedOnly(b) == b.status = "concluded"

\* "if battle_query.status != BattleStatus::Ongoing" (mod.rs:298).
AlreadyConcluded(b) == b.status # "ongoing"

\* Mutant: settlement under the condition of the rating update.
RunsSettlementOnAnyEnd(status) ==
    status = Some("concluded") \/ status = Some("cancelled")

\* "if request.status == Some(BattleStatus::Concluded)" (mod.rs:405).
RunsSettlement(status) == status = Some("concluded")

\* Mutant: only the red pot is looked at.
PotIsEmptyRedOnly(red_pot, blue_pot) == red_pot <= 0

\* "if red_pot <= 0 || blue_pot <= 0" (battle.rs:82).
PotIsEmpty(red_pot, blue_pot) == red_pot <= 0 \/ blue_pot <= 0

\* "if session.csrf != update_wager.csrf" (wager.rs:242).
CsrfMismatch(sess, csrf) == sess.csrf # csrf

\* calculate_winnings: the user tables and MobiumsChange events it may leave,
\* given the participants ps of match m, the wager table w and the user
\* table us.
calculate_winnings(m, ps, w, us) ==
    LET red_pot == get_total_pot(w, m, "red")
        blue_pot == get_total_pot(w, m, "blue")
        rows == WagerUsers(w, m)
        nothing == [ user |-> us, events |-> << >> ]
    IN  IF PotIsEmpty(red_pot, blue_pot) THEN { nothing }
        ELSE IF WinnerTeams(ps) = {} THEN { nothing }
        ELSE { [ user |-> [ u \in Accounts |->
                              IF u \in rows
                              THEN SettleRow(u, WagerQuery(w, u, m), us[u],
                                             red_pot, blue_pot, winner).row
                              ELSE us[u] ],
                 events |-> [ i \in 1 .. Cardinality(rows) |->
                              SettleRow(o[i], WagerQuery(w, o[i], m), us[o[i]],
                                        red_pot, blue_pot, winner).event ] ]
               : winner \in WinnerTeams(ps), o \in RowOrders(rows) }

\* Mutant: nobody is marked.
MarkNobody(ps) == ps

\* "UPDATE participant SET no_contest = TRUE WHERE finish_time IS NULL".
MarkNoContest(ps) ==
    [ i \in DOMAIN ps |->
        IF ps[i].finish_time = None THEN [ ps[i] EXCEPT !.no_contest = TRUE ]
        ELSE ps[i] ]

\* "if update_wager.mobiums > user.mobiums" (wager.rs:250).
NotEnoughMobiums(u, mobiums, us) == mobiums > us[u].mobiums

\* Mutant: the last instant of the grace period is closed already.
BetsClosedEarly(closed_at, t) == closed_at + Grace <= t

\* "if battle.closed_at + Duration::seconds(3) < now" (wager.rs:291).
BetsClosed(closed_at, t) == closed_at + Grace < t

\* Mutant: the token is not replaced.
generate_csrf_same(old) == {old}

\* generate_csrf: 64 random characters, taken to differ from the old token.
generate_csrf(old) == CsrfTokens \ {old}

\* The rows of WagerCountQuery (wager.rs:385-412): for every team of the
\* participants ps of match m, the number of wagers on it with mobiums > 0
\* and how many of these are the bot's.
WagerCounts(w, m, ps) ==
    { [ victor |-> t,
        wager_count |-> Cardinality({ u \in WagerUsers(w, m) :
                            /\ w[<< u, m >>].victor = TeamToU8(t)
                            /\ w[<< u, m >>].mobiums > 0 }),
        bot_wagers |-> Cardinality({ u \in WagerUsers(w, m) \cap {Bot} :
                            /\ w[<< u, m >>].victor = TeamToU8(t)
                            /\ w[<< u, m >>].mobiums > 0 }) ]
      : t \in { ps[i].team : i \in DOMAIN ps } }

\* Mutant: the wagers of the bot are counted as love.
HasNoWagers(q) == q.wager_count <= 0

\* ".filter(|q| q.wager_count - q.bot_wagers <= 0)" (wager.rs:416).
HasNoLove(q) == q.wager_count - q.bot_wagers <= 0

\* Mutant: off by one, the bot never counts as absent.
BotAbsentNever(q) == q.bot_wagers < 0

\* "if wager_info.bot_wagers <= 0" (wager.rs:421).
BotAbsent(q) == q.bot_wagers <= 0

\* The WagerUpdate message for a wager of the bot.
BotWagerUpdate(victor, mobiums, t) ==
    [ type |-> "wager-update", user |-> Bot, victor |-> victor,
      mobiums |-> mobiums, updated_at |-> t ]

\* rebalance_automated_wagers (wager.rs:370-483): the wager table and the
\* WagerUpdate messages it leaves for match m with participants ps at time
\* t. The bot holds one row per match, so at most one team carries it.
rebalance_automated_wagers(w, m, ps, t) ==
    LET wager_counts == WagerCounts(w, m, ps)
        empty_wagers == { q \in wager_counts : HasNoLove(q) }
        untouched == [ wager |-> w, events |-> << >> ]
    IN  IF Cardinality(empty_wagers) = 1
        THEN LET wager_info == CHOOSE q \in empty_wagers : TRUE
             IN  IF BotAbsent(wager_info)
                 THEN [ wager |-> (<< Bot, m >> :>
                                      [ victor |-> TeamToU8(wager_info.victor),
                                        mobiums |-> BotWagerAmount,
                                        updated_at |-> t ]) @@ w,
                        events |-> << BotWagerUpdate(wager_info.victor,
                                                     BotWagerAmount, t) >> ]
                 ELSE untouched
        ELSE LET carrying == { q \in wager_counts : q.bot_wagers > 0 }
             IN  IF carrying = {} THEN untouched
                 ELSE [ wager |-> [ w EXCEPT ![<< Bot, m >>].mobiums = 0,
                                             ![<< Bot, m >>].updated_at = t ],
                        events |-> << BotWagerUpdate(
                                          (CHOOSE q \in carrying : TRUE).victor, 0, t) >> ]

\* GET /matches/{uuid}/wagers/~me (routes/battle/wager.rs show_self): the
\* reply to user u for match m, given battle table b and wager table w. The
\* query keeps the rows with w.mobiums > 0 only.
show_self(b, w, u, m) ==
    IF m \notin DOMAIN b THEN Response("show_self", "not-found")
    ELSE IF ~ (<< u, m >> \in DOMAIN w /\ w[<< u, m >>].mobiums > 0)
         THEN Response("show_self", "not-found")
    ELSE [ op |-> "show_self", code |-> "ok",
           victor |-> TeamFromU8(w[<< u, m >>].victor),
           mobiums |-> w[<< u, m >>].mobiums,
           updated_at |-> w[<< u, m >>].updated_at ]

(* ------------------------------ socket -------------------------------- *)

\* Heartbeater::default: Duration::from_secs(30).
HeartbeatInterval == 30

HEARTBEAT_GRACE_DURATION == 5

\* close_timeout, as From<ws::WebSocket> sets it.
CloseTimeout == 5

\* broadcast::channel(16) in Room::new.
RoomCapacity == 16

\* Frames the server hands to the transport: a close frame with its code, a
\* heartbeat-ack with its seq, and the message sent for a Room event (with
\* the uuid of its match or the id of its chat message).
CloseFrame(code) == [ op |-> "close", code |-> code, seq |-> 0, uuid |-> "", message |-> 0 ]

HeartbeatAck(seq) == [ op |-> "heartbeat-ack", code |-> 0, seq |-> seq, uuid |-> "", message |-> 0 ]

ServerMessage(op, ev) ==
    [ op |-> op, code |-> 0, seq |-> 0,
      uuid |-> IF ev.type = "update-battle" THEN ev.battle.uuid ELSE "",
      message |-> IF ev.type = "new-message" THEN ev.message ELSE 0 ]

\* RoomEvent::NewMessage with the id of the chat message.
NewMessageEvent(n) == [ type |-> "new-message", message |-> n ]

\* Mutant: the transport puts a new frame before those it already holds.
start_send_first(sent, frame) == << frame >> \o sent

\* Sink::start_send of the transport (protocol.rs:104, 193-195, 223,
\* 249-256): the frame goes behind those the transport already took.
start_send(sent, frame) == Append(sent, frame)

\* Items of the transport's incoming stream: a text or binary frame with a
\* heartbeat or with another message, a close frame, a ping or pong, a
\* transfer error, and the end of the stream.
Incoming(kind, seq) == [ kind |-> kind, seq |-> seq ]

\* Mutant: a heartbeat that repeats the last seq is taken as new.
SeqIsNewOrSame(seq, highest) == seq >= highest

\* "if heartbeat.seq > self.seq" (protocol.rs:306).
SeqIsNew(seq, highest) == seq > highest

\* Heartbeater::ack (protocol.rs:304-316) at time t: the heartbeater
\* afterwards and the Option of the seq to acknowledge.
ack(heartbeater, seq, t) ==
    IF SeqIsNew(seq, heartbeater.seq)
    THEN [ heartbeater |->
             [ seq |-> seq,
               timeout |-> t + HeartbeatInterval + HEARTBEAT_GRACE_DURATION ],
           resp |-> Some(seq) ]
    ELSE [ heartbeater |-> heartbeater, resp |-> None ]

\* The channel: the values it retains, oldest first, and the number of
\* values sent so far (the position of the next value).
NewChannel == [ buffer |-> << >>, tail |-> 0 ]

\* Sender::send: never waits; at capacity the oldest value is released.
Send(chan, ev) ==
    LET all == Append(chan.buffer, ev)
    IN  [ buffer |-> IF Len(all) > RoomCapacity THEN Tail(all) ELSE all,
          tail |-> chan.tail + 1 ]

\* Position of the oldest value the channel retains.
Oldest(chan) == chan.tail - Len(chan.buffer)

\* Receiver::recv for a receiver at position next: pending when it has
\* seen every value, Lagged (and the receiver moves to the oldest retained
\* value) when values it has not seen were released, else the next value.
Recv(chan, next) ==
    IF next = chan.tail
    THEN [ kind |-> "pending", next |-> next ]
    ELSE IF next < Oldest(chan)
    THEN [ kind |-> "lagged", next |-> Oldest(chan) ]
    ELSE [ kind |-> "ok", next |-> next + 1 ]

RecvValue(chan, next) == chan.buffer[next - Oldest(chan) + 1]

\* WebSocketState as Room::serve builds it at time t (mod.rs:116-127,
\* protocol.rs:271-283, 295-301), with the model's view of the transport:
\* inbox is what the client has sent and the server has not read, sent the
\* frames the server handed to the transport, frames the number of frames
\* the client has sent, result the outcome of the last read, pc the
\* position of the task, timeout_waker whether the task waits on the
\* heartbeat timer (its last poll of the timer was pending).
NewSocket(socket_user, snapshot, chan, t) ==
    [ pc |-> "select",
      user |-> socket_user,
      battle |-> snapshot,
      rx |-> chan.tail,
      heartbeater |->
          [ seq |-> 0,
            timeout |-> t + HeartbeatInterval + HEARTBEAT_GRACE_DURATION ],
      timeout_waker |-> FALSE,
      heartbeat_stage |-> "none",
      close_stage |-> "running",
      wait |-> 0,
      closed_client |-> FALSE,
      closed_server |-> FALSE,
      inbox |-> << >>,
      frames |-> 0,
      sent |-> << >>,
      result |-> "none" ]

\* No client is connected.
NoSocket == [ NewSocket(None, None, NewChannel, 0) EXCEPT !.pc = "idle" ]

(* ------------------------------ usernames ----------------------------- *)

\* The longest input of to_username_lossy.
MaxUsernameLen == 3

\* Characters of the inputs: an ASCII lowercase letter, a digit, the two
\* marks a username may hold, an ASCII uppercase letter, another ASCII
\* character, and a character of two bytes in UTF-8.
UsernameChars == { "a", "7", "_", "-", "B", "~", "é" }

\* char::len_utf8 and the bytes of a character.
len_utf8(ch) == IF ch = "é" THEN 2 ELSE 1

Utf8(ch) == IF ch = "é" THEN << "é:1", "é:2" >> ELSE << ch >>

\* The bytes of a string, and the characters of a byte string.
RECURSIVE Encode(_)
Encode(chars) ==
    IF chars = << >> THEN << >> ELSE Utf8(Head(chars)) \o Encode(Tail(chars))

RECURSIVE Decode(_)
Decode(bytes) ==
    IF bytes = << >> THEN << >>
    ELSE IF Head(bytes) = "é:1" THEN << "é" >> \o Decode(Tail(Tail(bytes)))
    ELSE << Head(bytes) >> \o Decode(Tail(bytes))

is_ascii_lowercase(ch) == ch \in { "a", "b" }

is_ascii_digit(ch) == ch = "7"

is_ascii_uppercase(ch) == ch = "B"

to_lowercase(ch) == IF ch = "B" THEN "b" ELSE ch

\* Mutant: uppercase letters count as username characters.
is_username_char_any_case(ch) ==
    is_ascii_lowercase(ch) \/ is_ascii_uppercase(ch) \/ is_ascii_digit(ch)
       \/ ch \in { "_", "-" }

\* is_username_char (user.rs:132-134).
is_username_char(ch) ==
    is_ascii_lowercase(ch) \/ is_ascii_digit(ch) \/ ch \in { "_", "-" }

\* &username[from..to], on bytes.
Slice(bytes, from, to) == SubSeq(bytes, from + 1, to)

\* The locals of to_username_lossy before its loop (user.rs:84-88).
Locals == [ buf |-> << >>, mark |-> 0, ix |-> 0, is_valid |-> TRUE ]

\* The body of the loop for character ch (user.rs:90-111).
LoopBody(bytes, st, ch) ==
    LET seen ==
          IF is_username_char(ch)
          THEN IF ~ st.is_valid
               THEN [ st EXCEPT !.is_valid = TRUE, !.mark = st.ix ]
               ELSE st
          ELSE LET flushed == IF st.is_valid
                              THEN [ st EXCEPT !.buf = @ \o Slice(bytes, st.mark, st.ix),
                                                !.is_valid = FALSE ]
                              ELSE st
               IN  IF is_ascii_uppercase(ch)
                   THEN [ flushed EXCEPT !.buf = @ \o Utf8(to_lowercase(ch)) ]
                   ELSE flushed
    IN  [ seen EXCEPT !.ix = @ + len_utf8(ch) ]

\* What follows the loop (user.rs:113-122): the bytes returned.
AfterLoop(bytes, st) ==
    LET mark == IF ~ st.is_valid THEN Len(bytes) ELSE st.mark
    IN  IF mark > 0 THEN st.buf \o Slice(bytes, mark, Len(bytes)) ELSE bytes

RECURSIVE Loop(_, _, _)
Loop(bytes, st, chars) ==
    IF chars = << >> THEN st
    ELSE Loop(bytes, LoopBody(bytes, st, Head(chars)), Tail(chars))

\* to_username_lossy on the characters of a string: the bytes returned.
to_username_lossy(chars) ==
    AfterLoop(Encode(chars), Loop(Encode(chars), Locals, chars))

\* A call of to_username_lossy before its loop.
Call(chars) == [ username |-> chars, rest |-> chars, st |-> Locals, out |-> None ]

\* Inputs of at most n characters.
Usernames(n) == UNION { [ 1 .. k -> UsernameChars ] : k \in 0 .. n }

(* ------------------------------ ratings ------------------------------- *)

\* config.mmr.period, in seconds of the model's clock.
MmrPeriod == 2

\* The greatest distance of a modelled rating from the default rating.
MaxRating == 2

\* config.mmr.defaults on the model's scales: a rating is its distance from
\* the default rating, a deviation is counted in steps of which a period
\* without matches adds MmrPeriod, a volatility is its distance from the
\* default volatility.
Defaults == [ rating |-> 0, deviation |-> 2 * MmrPeriod, volatility |-> 0 ]

Min(a, b) == IF a < b THEN a ELSE b

\* The rating columns of a rating row (From<PlayerRating>).
CurrentPlayerRating(r) ==
    [ rating |-> r.rating, deviation |-> r.deviation, volatility |-> r.volatility ]

\* A row of the rating table.
PlayerRating(p, period_id, r) ==
    [ player_id |-> p, period_id |-> period_id, rating |-> r.rating,
      deviation |-> r.deviation, volatility |-> r.volatility ]

\* No rating period and no rating: every player row holds the defaults.
NoRatings ==
    [ player |-> [ p \in Players |-> Defaults ],
      rating |-> [ p \in Players |-> None ],
      rating_period |-> << >> ]

\* The rating periods and ratings after the players of rated were
\* registered at time t (init_rating): the first of them inserts the period.
Registered(rated, t) ==
    [ player |-> [ p \in Players |-> Defaults ],
      rating |-> [ p \in Players |->
                     IF p \in rated THEN Some(PlayerRating(p, 1, Defaults)) ELSE None ],
      rating_period |-> IF rated = {} THEN << >> ELSE << t >> ]

\* glicko2::rate on the model's scales. Without matchups only the deviation
\* grows, by the elapsed part of the period. With matchups the rating moves
\* up with wins and down with losses, and the deviation ends below its
\* pre-rating-period value; the volatility iteration is not followed.
rate(player, matchups, fractional_period) ==
    LET pre == player.deviation + fractional_period
        wins == Cardinality({ x \in matchups : x.outcome = "win" })
        loses == Cardinality({ x \in matchups : x.outcome = "lose" })
        moved == player.rating + wins - loses
    IN  IF matchups = {}
        THEN [ player EXCEPT !.deviation = pre ]
        ELSE [ player EXCEPT
                 !.rating = IF moved > MaxRating THEN MaxRating
                            ELSE IF moved < - MaxRating THEN - MaxRating
                            ELSE moved,
                 !.deviation = IF pre > 0 THEN pre - 1 ELSE 0 ]

\* The rows of find_matchups.sql for player p and the period [from, to):
\* one row for every rated opponent of every match of p closed within the
\* period, with the finish time and the position of p in that match.
find_matchups(battles, ratings, p, from, to) ==
    UNION { UNION { { [ battle |-> m,
                        opponent |-> battles[m].participants[j].player,
                        status |-> battles[m].status,
                        finish_time |-> battles[m].participants[i].finish_time,
                        position |-> 1 + Cardinality(
                            { k \in DOMAIN battles[m].participants :
                                ~ FinishLeq(battles[m].participants[i].finish_time,
                                            battles[m].participants[k].finish_time) }) ]
                      : j \in { k \in DOMAIN battles[m].participants :
                                  /\ k # i
                                  /\ ratings[battles[m].participants[k].player] # None } }
                    : i \in { k \in DOMAIN battles[m].participants :
                                battles[m].participants[k].player = p } }
            : m \in { x \in DOMAIN battles :
                        from <= battles[x].closed_at /\ battles[x].closed_at < to } }

\* fetch_matchups with the outcome the callers give each row: short
\* cancelled matches and ongoing matches do not count.
fetch_matchups(battles, ratings, p, from, to) ==
    { [ battle |-> x.battle, opponent |-> x.opponent,
        outcome |-> IF x.position > 1 THEN "lose" ELSE "win" ]
      : x \in { y \in find_matchups(battles, ratings, p, from, to) :
                  CASE y.status = "concluded" -> TRUE
                    [] y.status = "cancelled" ->
                          y.finish_time # None /\ Unwrap(y.finish_time) > 35 * 30
                    [] OTHER -> FALSE } }

\* The newest rating period, "ORDER BY inserted_at DESC LIMIT 1": none, or
\* a period with the latest start.
LatestPeriod(periods) ==
    { [ id |-> i, started_at |-> periods[i] ]
      : i \in { k \in DOMAIN periods : \A n \in DOMAIN periods : periods[n] <= periods[k] } }

\* The rating a rollover writes to the player row and catalogs: the result
\* of rate as it is (mmr/mod.rs:326-348).
RolloverRating(r) == r

\* The loop of next_rating_period: while a whole period has elapsed since
\* period started, close it: insert the next period at its end, rate every
\* player that has a rating over the closed period with a full period
\* elapsed, write the player row and catalog the rating in the new period.
RECURSIVE CloseRatingPeriods(_, _, _, _, _)
CloseRatingPeriods(m, battles, period, elapsed, first) ==
    IF elapsed < MmrPeriod
    THEN [ mmr |-> m,
           period |-> [ period EXCEPT
               !.period_elapsed = IF first THEN Min(elapsed, MmrPeriod) ELSE MmrPeriod ] ]
    ELSE
      LET ended_at == period.started_at + MmrPeriod
          new_period == [ id |-> Len(m.rating_period) + 1, started_at |-> ended_at,
                          period_elapsed |-> MmrPeriod ]
          rated == { p \in Players : m.rating[p] # None }
          new_rating(p) ==
              RolloverRating(
                  rate(Unwrap(m.rating[p]),
                       fetch_matchups(battles, m.rating, p, period.started_at, ended_at),
                       MmrPeriod))
          closed ==
              [ player |-> [ p \in Players |->
                               IF p \in rated THEN CurrentPlayerRating(new_rating(p))
                               ELSE m.player[p] ],
                rating |-> [ p \in Players |->
                               IF p \in rated
                               THEN Some(PlayerRating(p, new_period.id, new_rating(p)))
                               ELSE m.rating[p] ],
                rating_period |-> Append(m.rating_period, ended_at) ]
      IN  CloseRatingPeriods(closed, battles, new_period, elapsed - MmrPeriod, FALSE)

\* The first period, inserted at t when the query found none
\* (mmr/mod.rs:245-260).
FirstPeriod(m, t) ==
    [ mmr |-> [ m EXCEPT !.rating_period = Append(@, t) ],
      period |-> [ id |-> Len(m.rating_period) + 1, started_at |-> t,
                   period_elapsed |-> 0 ] ]

\* next_rating_period run in one piece at time t: the states and periods it
\* may return (one for each newest period the query may give).
next_rating_period(m, battles, t) ==
    IF m.rating_period = << >>
    THEN { FirstPeriod(m, t) }
    ELSE { CloseRatingPeriods(m, battles,
                              [ id |-> l.id, started_at |-> l.started_at, period_elapsed |-> 0 ],
                              t - l.started_at, TRUE)
           : l \in LatestPeriod(m.rating_period) }

\* update_rating for a rating row the handler read, at time t.
update_rating(m, battles, rating, t) ==
    { LET period == n.period
          ends_at == period.started_at + MmrPeriod
          matchups == fetch_matchups(battles, n.mmr.rating, rating.player_id,
                                     period.started_at, ends_at)
          new_rating == rate(rating, matchups, period.period_elapsed)
          capped == [ new_rating EXCEPT !.deviation = Min(@, Defaults.deviation) ]
      IN  [ n.mmr EXCEPT !.player[rating.player_id] = CurrentPlayerRating(capped) ]
      : n \in next_rating_period(m, battles, t) }

\* The latest rating rows of the participants of a match, as the update
\* handler reads them (routes/battle/mod.rs:362-381).
RatingsOf(m, participants) ==
    { Unwrap(m.rating[p]) : p \in { participants[i].player : i \in DOMAIN participants }
                                  \cap { q \in Players : m.rating[q] # None } }

\* Mutant: ratings are updated as soon as one participant has a rating.
HasAnyRating(ratings) == Cardinality(ratings) > 0

\* "Only update if there was more than 1 participant" with a rating
\* (routes/battle/mod.rs:383-384).
HasOpponents(ratings) == Cardinality(ratings) > 1

\* The statuses of a request after which the handler updates ratings
\* (routes/battle/mod.rs:358-360).
UpdatesRatings(status) == status = Some("concluded") \/ status = Some("cancelled")

\* update_rating for each of the rows in turn, each on the state the one
\* before left.
RECURSIVE UpdateRatings(_, _, _, _)
UpdateRatings(m, battles, ratings, t) ==
    IF ratings = {} THEN { m }
    ELSE UNION { UNION { UpdateRatings(n, battles, ratings \ { r }, t)
                         : n \in update_rating(m, battles, r, t) }
                 : r \in ratings }

\* The rating block of the update handler (routes/battle/mod.rs:358-389).
RatingBlock(m, battles, participants, status, t) ==
    IF UpdatesRatings(status) /\ HasOpponents(RatingsOf(m, participants))
    THEN UpdateRatings(m, battles, RatingsOf(m, participants), t)
    ELSE { m }

\* No call of Room::update_battle was made: written is the matches stored
\* in the current-match cell, in the order of the writes; pending is the
\* matches of the calls that have written the cell and not yet sent.
NoCalls == [ written |-> << >>, pending |-> {} ]

\* The rating period job: idle, or between its query for the newest period
\* and what it does with the answer.
NoJob == [ pc |-> "idle", period |-> None, now |-> 0 ]

(* ------------------------------- Init --------------------------------- *)

Init ==
    /\ now = 0
    /\ battle = << >>
    /\ wager = << >>
    /\ user = [ u \in Accounts |-> [ mobiums |-> StartMobiums, bailout_count |-> 0 ] ]
    /\ session = [ u \in Users |-> [ csrf |-> "A" ] ]
    /\ placing = {}
    /\ current_battle = None
    /\ published = << >>
    /\ response = Response("none", "ok")
    /\ bot_enabled = FALSE
    /\ tx = NewChannel
    /\ socket = NoSocket
    /\ mmr = NoRatings
    /\ job = NoJob
    /\ lossy = Call(<< >>)
    /\ calls = NoCalls

\* A request that is rejected: only the response is new.
Reject(op, code) ==
    /\ response' = Response(op, code)
    /\ published' = << >>
    /\ UNCHANGED << now, battle, wager, user, session, placing, current_battle, bot_enabled, tx, socket, mmr, job, lossy, calls >>

(* ------------------------------ actions ------------------------------- *)

\* The clock advances.
Tick(max) ==
    /\ now < max
    /\ now' = now + 1
    /\ published' = << >>
    /\ response' = Response("none", "ok")
    /\ UNCHANGED << battle, wager, user, session, placing, current_battle, bot_enabled, tx, socket, mmr, job, lossy, calls >>

\* Mutant: a rollback that keeps what the transaction wrote.
rollback_keeps(before, written) == written

\* "tx.rollback().await?" (routes/battle/mod.rs:222): the store is as it
\* was when the transaction began.
rollback(before, written) == before

\* The match row and the participant rows create has inserted after the
\* first n participants of the request (routes/battle/mod.rs:152-204).
Inserted(bet_time, plist, n, t) ==
    [ status |-> "ongoing",
      closed_at |-> t + bet_time,
      participants |->
          [ i \in 1 .. n |->
              [ player |-> plist[i].id, team |-> plist[i].team,
                finish_time |-> None, no_contest |-> FALSE ] ] ]

\* Mutant: the end of the match always moves closed_at to now.
ClosedAtNow(closed_at, t) == t

\* closed_at of a match whose status changes at time t: the bet window is
\* cut short when it was still open (routes/battle/mod.rs:329-332).
ClosedAt(closed_at, t) == IF t < closed_at THEN t ELSE closed_at

\* POST /matches (routes/battle/mod.rs create).
CreateBattle(m, bet_time, plist) ==
    /\ m \notin DOMAIN battle
    /\ IF \E i \in DOMAIN plist : plist[i].id \notin Players
       THEN LET k == CHOOSE i \in DOMAIN plist :
                        /\ plist[i].id \notin Players
                        /\ \A j \in 1 .. i - 1 : plist[j].id \in Players
                written == (m :> Inserted(bet_time, plist, k - 1, now)) @@ battle
            IN  /\ battle' = rollback(battle, written)
                /\ response' = [ op |-> "create", code |-> "missing-participant",
                                 id |-> plist[k].id ]
                /\ published' = << >>
                /\ UNCHANGED << now, wager, user, session, placing, current_battle,
                                bot_enabled, tx, socket, mmr, job, lossy, calls >>
       ELSE LET b == Inserted(bet_time, plist, Len(plist), now)
            IN  /\ battle' = (m :> b) @@ battle
                /\ current_battle' = Some(BattleData(m, b))
                /\ published' = << UpdateBattleEvent(m, b) >>
                /\ response' = Response("create", "ok")
                /\ UNCHANGED << now, wager, user, session, placing, bot_enabled, tx, socket, mmr, job, lossy, calls >>

\* PATCH /matches/{uuid} (routes/battle/mod.rs update); status is the
\* Option<BattleStatus> of the request.
UpdateBattle(m, status) ==
    IF m \notin DOMAIN battle THEN Reject("update", "not-found")
    ELSE IF AlreadyConcluded(battle[m]) THEN Reject("update", "already-concluded")
    ELSE
      LET old == battle[m]
          is_status_changed == status # None /\ Unwrap(status) # old.status
          b == IF is_status_changed
               THEN [ status |-> Unwrap(status),
                      closed_at |-> ClosedAt(old.closed_at, now),
                      participants |-> MarkNoContest(old.participants) ]
               ELSE old
      IN  /\ battle' = [ battle EXCEPT ![m] = b ]
          /\ current_battle' = Some(BattleData(m, b))
          /\ \E out \in ( IF RunsSettlement(status)
                          THEN calculate_winnings(m, b.participants, wager, user)
                          ELSE { [ user |-> user, events |-> << >> ] } ) :
                /\ user' = out.user
                /\ published' = << UpdateBattleEvent(m, b) >> \o out.events
          /\ \E n \in RatingBlock(mmr, [ battle EXCEPT ![m] = b ], b.participants,
                                  status, now) : mmr' = n
          /\ response' = Response("update", "ok")
          /\ UNCHANGED << now, wager, session, placing, bot_enabled, tx, socket, job, lossy, calls >>

\* PATCH /matches/{uuid} when the store fails and the transaction is
\* dropped, which rolls it back: at "before" a store call up to
\* preload_participants returns an error (routes/battle/mod.rs:273-394),
\* at "commit" the commit does (routes/battle/mod.rs:410). Room::update_battle
\* and the sends of calculate_winnings have run by then (396-408).
UpdateBattleAborted(m, status, at) ==
    /\ m \in DOMAIN battle
    /\ ~ AlreadyConcluded(battle[m])
    /\ LET old == battle[m]
           is_status_changed == status # None /\ Unwrap(status) # old.status
           b == IF is_status_changed
                THEN [ status |-> Unwrap(status),
                       closed_at |-> ClosedAt(old.closed_at, now),
                       participants |-> MarkNoContest(old.participants) ]
                ELSE old
       IN  IF at = "before"
           THEN /\ published' = << >>
                /\ UNCHANGED current_battle
           ELSE /\ current_battle' = Some(BattleData(m, b))
                /\ \E out \in ( IF RunsSettlement(status)
                                THEN calculate_winnings(m, b.participants, wager, user)
                                ELSE { [ user |-> user, events |-> << >> ] } ) :
                      published' = << UpdateBattleEvent(m, b) >> \o out.events
    /\ response' = Response("update", "store-error")
    /\ UNCHANGED << now, battle, wager, user, session, placing, bot_enabled, tx,
                    socket, mmr, job, lossy, calls >>

\* PUT /matches/{uuid}/wagers/~me (routes/battle/wager.rs create), for the
\* session of user u. The
\* requests of one session are handled one after another: the session and
\* the user row the extractors read are those the handler acts on.
WagerCreate(u, m, victor, mobiums, csrf) ==
    IF CsrfMismatch(session[u], csrf) THEN Reject("wager", "invalid-csrf-token")
    ELSE IF mobiums < 0 THEN Reject("wager", "invalid-data")
    ELSE IF NotEnoughMobiums(u, mobiums, user) THEN Reject("wager", "not-enough-mobiums")
    ELSE IF m \notin DOMAIN battle THEN Reject("wager", "not-found")
    ELSE IF battle[m].status # "ongoing" THEN Reject("wager", "invalid-data")
    ELSE IF BetsClosed(battle[m].closed_at, now) THEN Reject("wager", "invalid-data")
    ELSE IF ~ \E i \in DOMAIN battle[m].participants :
                 battle[m].participants[i].team = victor
         THEN Reject("wager", "invalid-data")
    ELSE
      LET upserted == (<< u, m >> :> [ victor |-> TeamToU8(victor), mobiums |-> mobiums,
                                       updated_at |-> now ]) @@ wager
          rebalanced == IF bot_enabled
                        THEN rebalance_automated_wagers(upserted, m,
                                                        battle[m].participants, now)
                        ELSE [ wager |-> upserted, events |-> << >> ]
      IN
      /\ wager' = rebalanced.wager
      /\ \E token \in generate_csrf(session[u].csrf) :
            session' = [ session EXCEPT ![u].csrf = token ]
      /\ published' = rebalanced.events \o
                          << [ type |-> "wager-update", user |-> u,
                               victor |-> victor, mobiums |-> mobiums,
                               updated_at |-> now ] >>
      /\ response' = Response("wager", "ok")
      /\ UNCHANGED << now, battle, user, placing, current_battle, bot_enabled, tx, socket, mmr, job, lossy, calls >>

\* PATCH /matches/{uuid}/players/{short_id} (routes/battle/player.rs
\* update), first part: the match and participant lookups (player.rs:42-104).
PlacementCheck(m, short_id) ==
    /\ Cardinality(placing) < MaxInFlight
    /\ IF m \notin DOMAIN battle THEN Reject("placement", "not-found")
       ELSE IF battle[m].status # "ongoing"
            THEN Reject("placement", "already-concluded")
       ELSE IF ~ \E i \in DOMAIN battle[m].participants :
                    battle[m].participants[i].player = short_id
            THEN Reject("placement", "not-found")
       ELSE LET i == CHOOSE j \in DOMAIN battle[m].participants :
                         battle[m].participants[j].player = short_id
            IN  /\ placing' = placing \cup
                     { [ uuid |-> m, participant_id |-> i,
                         finish_time |-> battle[m].participants[i].finish_time ] }
                /\ published' = << >>
                /\ response' = Response("placement", "pending")
                /\ UNCHANGED << now, battle, wager, user, session, current_battle, bot_enabled, tx, socket, mmr, job, lossy, calls >>

\* "finish_time = IFNULL($2, finish_time)" (player.rs:107-120).
StoredFinishTime(stored, requested) == IF requested = None THEN stored ELSE requested

\* finish_time of the returned participant: the value the handler read
\* before its UPDATE, or else the value of the request (player.rs:132).
ReturnedFinishTime(read, requested) == IF read # None THEN read ELSE requested

\* Second part: the UPDATE of the participant row and the reply
\* (player.rs:106-135); finish_time is the Option<i32> of the request.
PlacementWrite(req, finish_time) ==
    /\ req \in placing
    /\ placing' = placing \ {req}
    /\ battle' = [ battle EXCEPT ![req.uuid].participants[req.participant_id].finish_time =
                       StoredFinishTime(@, finish_time) ]
    /\ published' = << >>
    /\ response' = [ op |-> "placement", code |-> "ok",
                     finish_time |-> ReturnedFinishTime(req.finish_time, finish_time) ]
    /\ UNCHANGED << now, wager, user, session, current_battle, bot_enabled, tx, socket, mmr, job, lossy, calls >>

(* ---------------------------- specification --------------------------- *)

StatusRequests == { None } \cup { Some(s) : s \in Statuses }

\* One match and two users, one of them with unlimited wagers. All
\* requests arrive within the same second.
Next ==
    \/ \E pl \in ParticipantLists : CreateBattle("m1", 1, pl)
    \/ \E st \in StatusRequests : UpdateBattle("m1", st)
    \/ \E u \in {"u1", "u3"}, t \in Teams, a \in {-1, 0, 100, 200}, c \in CsrfTokens :
          WagerCreate(u, "m1", t, a, c)
    \/ \E p \in Players : PlacementCheck("m1", p)
    \/ \E req \in placing, ft \in {None, Some(1)} : PlacementWrite(req, ft)

Spec == Init /\ [][Next]_vars

\* One match and three users; each wagers their own stake, on either team,
\* with the current token of their session. Both participants may finish,
\* at different times. All requests arrive within the same second.
NextPot ==
    \/ CreateBattle("m1", 0, ValidList)
    \/ \E st \in {Some("concluded"), Some("cancelled")} : UpdateBattle("m1", st)
    \/ \E u \in Users, t \in Teams : WagerCreate(u, "m1", t, Stake[u], session[u].csrf)
    \/ \E p \in Players : PlacementCheck("m1", p)
    \/ \E req \in placing, ft \in {Some(1), Some(2)} : PlacementWrite(req, ft)

SpecPot == Init /\ [][NextPot]_vars

\* Participant lists of which the second, or already the first, short id
\* is registered nowhere.
CreateLists ==
    ParticipantLists \cup
       { << [id |-> "yy", team |-> "red"], [id |-> "zz", team |-> "blue"] >> }

\* Two matches created with any of the participant lists, in which the
\* first participant may finish and whose status may be updated.
NextCreate ==
    \/ Tick(MaxTime)
    \/ \E m \in Battles, bt \in BetTimes, pl \in CreateLists : CreateBattle(m, bt, pl)
    \/ \E m \in Battles, st \in StatusRequests : UpdateBattle(m, st)
    \/ \E m \in Battles : PlacementCheck(m, "p1")
    \/ \E req \in placing, ft \in {None, Some(1)} : PlacementWrite(req, ft)

SpecCreate == Init /\ [][NextCreate]_vars

\* Two matches at once, in which the first participant may finish; u1
\* wagers the starting balance on either team, u3 on red. All requests
\* arrive within the same second.
NextMulti ==
    \/ \E m \in Battles : CreateBattle(m, 0, ValidList)
    \/ \E m \in Battles : UpdateBattle(m, Some("concluded"))
    \/ \E m \in Battles, t \in Teams :
          WagerCreate("u1", m, t, StartMobiums, session["u1"].csrf)
    \/ \E m \in Battles : WagerCreate("u3", m, "red", StartMobiums, session["u3"].csrf)
    \/ \E m \in Battles : PlacementCheck(m, "p1")
    \/ \E req \in placing : PlacementWrite(req, Some(1))

SpecMulti == Init /\ [][NextMulti]_vars

\* The bet window: one match that closes when it is created or a second
\* later, one user who sends either token, and a clock that runs past the
\* end of the grace period.
NextClock ==
    \/ Tick(MaxClock)
    \/ \E bt \in BetTimes : CreateBattle("m1", bt, ValidList)
    \/ \E st \in StatusRequests : UpdateBattle("m1", st)
    \/ \E t \in Teams, a \in {0, 100, 200}, c \in CsrfTokens :
          WagerCreate("u1", "m1", t, a, c)
    \/ PlacementCheck("m1", "p1")
    \/ \E req \in placing : PlacementWrite(req, Some(1))

SpecClock == Init /\ [][NextClock]_vars

\* The wager bot is enabled: one match, two users who wager nothing or the
\* starting balance on either team, and the first participant may finish.
InitBot ==
    /\ now = 0
    /\ battle = << >>
    /\ wager = << >>
    /\ user = [ u \in Accounts |-> [ mobiums |-> StartMobiums, bailout_count |-> 0 ] ]
    /\ session = [ u \in Users |-> [ csrf |-> "A" ] ]
    /\ placing = {}
    /\ current_battle = None
    /\ published = << >>
    /\ response = Response("none", "ok")
    /\ bot_enabled = TRUE
    /\ tx = NewChannel
    /\ socket = NoSocket
    /\ mmr = NoRatings
    /\ job = NoJob
    /\ lossy = Call(<< >>)
    /\ calls = NoCalls

NextBot ==
    \/ Tick(MaxTime)
    \/ CreateBattle("m1", 1, ValidList)
    \/ \E st \in {Some("concluded"), Some("cancelled")} : UpdateBattle("m1", st)
    \/ \E u \in {"u1", "u2"}, t \in Teams, a \in {0, StartMobiums} :
          WagerCreate(u, "m1", t, a, session[u].csrf)
    \/ PlacementCheck("m1", "p1")
    \/ \E req \in placing : PlacementWrite(req, Some(1))

SpecBot == InitBot /\ [][NextBot]_vars

(* --------------------------- socket actions --------------------------- *)

\* What the socket actions leave alone.
tables == << battle, wager, user, session, placing, published, response,
            bot_enabled, mmr, job, lossy, calls >>

\* Room::serve and the head of serve (mod.rs:116-127, 174-178): the
\* snapshot of the current match, a receiver on the channel, and new-battle
\* for the snapshot; ok is whether the transport takes the frame.
Serve(socket_user, ok) ==
    /\ socket.pc = "idle"
    /\ LET s == NewSocket(socket_user, current_battle, tx, now)
       IN  socket' =
             IF current_battle # None /\ ok
             THEN [ s EXCEPT !.sent =
                      start_send(@, ServerMessage("new-battle",
                                       UpdateBattleOf(Unwrap(current_battle)))) ]
             ELSE s
    /\ UNCHANGED << now, current_battle, tx, tables >>

\* What serve does with the item ws.recv() returned (mod.rs:186-200): a
\* message is handled and the loop goes on, an error closes the transport
\* and leaves the loop, the end leaves the loop.
Returned(s, result) ==
    [ s EXCEPT !.result = result,
               !.pc = IF result = "msg" THEN "select" ELSE "exited" ]

\* "while !state.ws.is_closed()" and the start of ws.recv() (mod.rs:180-184).
ServeLoop ==
    /\ socket.pc = "select"
    /\ socket' = [ socket EXCEPT !.pc = IF socket.close_stage = "closed"
                                        THEN "exited" ELSE "close" ]
    /\ UNCHANGED << now, current_battle, tx, tables >>

\* Mutant: after the flush the socket always waits for the client's close.
AfterFlushWaits(closed_client) == "wait"

\* "Check if the client sent their close frame" (protocol.rs:145-150).
AfterFlush(closed_client) == IF closed_client THEN "closing" ELSE "wait"

\* Mutant: the sleep of the wait stage has no length.
WaitDeadlineNow(t) == t

\* The deadline of "sleep(*this.close_timeout)" started at time t
\* (protocol.rs:149).
WaitDeadline(t) == t + CloseTimeout

\* One turn of the loop of poll_close_inner (protocol.rs:114-159); ok is
\* the outcome of poll_flush or poll_close. The transport completes a write
\* or refuses it at once.
PollCloseInner(ok) ==
    /\ socket.pc = "close"
    /\ socket' =
         CASE socket.close_stage = "running" ->
                [ socket EXCEPT !.pc = "heartbeat" ]
           [] socket.close_stage = "wait" ->
                IF now >= socket.wait
                THEN [ socket EXCEPT !.close_stage = "closing" ]
                ELSE IF socket.inbox = << >>
                THEN [ socket EXCEPT !.pc = "heartbeat" ]
                ELSE LET ev == Head(socket.inbox)
                     IN  IF ev.kind = "close"
                         THEN [ socket EXCEPT !.inbox = Tail(@),
                                              !.close_stage = "closing",
                                              !.closed_client = TRUE ]
                         ELSE IF ev.kind = "err"
                         THEN Returned([ socket EXCEPT !.inbox = Tail(@) ], "err")
                         ELSE IF ev.kind = "eof"
                         THEN Returned(socket, "end")
                         ELSE [ socket EXCEPT !.inbox = Tail(@) ]
           [] socket.close_stage = "flushing" ->
                IF ~ok
                THEN Returned(socket, "err")
                ELSE [ socket EXCEPT
                         !.closed_server = TRUE,
                         !.close_stage = AfterFlush(socket.closed_client),
                         !.wait = IF socket.closed_client
                                  THEN @ ELSE WaitDeadline(now) ]
           [] socket.close_stage = "closing" ->
                IF ~ok
                THEN Returned(socket, "err")
                ELSE [ socket EXCEPT !.close_stage = "closed" ]
           [] socket.close_stage = "closed" ->
                Returned(socket, "end")
    /\ UNCHANGED << now, current_battle, tx, tables >>

\* "if *this.heartbeat_stage == HeartbeatStage::Flushing" (protocol.rs:176-180).
PollHeartbeatFlush(ok) ==
    /\ socket.pc = "heartbeat"
    /\ socket' =
         IF socket.heartbeat_stage # "flushing"
         THEN [ socket EXCEPT !.pc = "timeout" ]
         ELSE IF ok
         THEN [ socket EXCEPT !.heartbeat_stage = "none", !.pc = "timeout" ]
         ELSE Returned(socket, "err")
    /\ UNCHANGED << now, current_battle, tx, tables >>

\* Mutant: the heartbeat timeout takes the socket to the wait stage.
AfterTimeoutWaits == "wait"

\* The close stage the heartbeat timeout sets (protocol.rs:196).
AfterTimeout == "flushing"

\* The poll of the heartbeat timer (protocol.rs:182-199); ok is the outcome
\* of start_send for the close frame.
PollTimeout(ok) ==
    /\ socket.pc = "timeout"
    /\ socket' =
         IF now < socket.heartbeater.timeout
         THEN [ socket EXCEPT !.timeout_waker = TRUE, !.pc = "read" ]
         ELSE IF ok
         THEN [ socket EXCEPT !.timeout_waker = FALSE,
                              !.sent = start_send(@, CloseFrame(1002)),
                              !.close_stage = AfterTimeout,
                              !.pc = "read" ]
         ELSE Returned([ socket EXCEPT !.timeout_waker = FALSE ], "err")
    /\ UNCHANGED << now, current_battle, tx, tables >>

\* The read of the transport and what follows it (protocol.rs:201-235, with
\* preprocess_message 96-112); ok is the outcome of start_send.
PollRead(ok) ==
    /\ socket.pc = "read"
    /\ socket' =
         IF socket.inbox = << >>
         THEN [ socket EXCEPT !.pc = "parked" ]
         ELSE
           LET ev   == Head(socket.inbox)
               read == [ socket EXCEPT !.inbox = Tail(@) ]
               a    == ack(socket.heartbeater, ev.seq, now)
           IN  CASE ev.kind = "heartbeat" ->
                      IF a.resp = None
                      THEN Returned(read, "msg")
                      ELSE LET reset == [ read EXCEPT !.heartbeater = a.heartbeater,
                                                      !.timeout_waker = FALSE ]
                           IN  IF ok
                               THEN Returned(
                                      [ reset EXCEPT
                                          !.sent = start_send(@, HeartbeatAck(Unwrap(a.resp))),
                                          !.heartbeat_stage = "flushing" ],
                                      "msg")
                               ELSE Returned(reset, "err")
                 [] ev.kind = "message" -> Returned(read, "msg")
                 [] ev.kind = "close" ->
                      IF ok
                      THEN [ read EXCEPT !.closed_client = TRUE,
                                         !.sent = start_send(@, CloseFrame(1001)),
                                         !.close_stage = "flushing",
                                         !.pc = "close" ]
                      ELSE Returned([ read EXCEPT !.closed_client = TRUE,
                                                  !.close_stage = "closed" ],
                                    "end")
                 [] ev.kind = "ping" -> [ read EXCEPT !.pc = "close" ]
                 [] ev.kind = "err" -> Returned(read, "err")
                 [] ev.kind = "eof" -> Returned(socket, "end")
    /\ UNCHANGED << now, current_battle, tx, tables >>

\* What wakes the parked task: a frame on the transport, a value on the
\* channel, the heartbeat timer when the task waits on it, and the sleep of
\* the wait stage.
Woken ==
    \/ socket.inbox # << >>
    \/ Recv(tx, socket.rx).kind # "pending"
    \/ socket.timeout_waker /\ now >= socket.heartbeater.timeout
    \/ socket.close_stage = "wait" /\ now >= socket.wait

\* The task is polled again: select polls ws.recv().
Wake ==
    /\ socket.pc = "parked"
    /\ Woken
    /\ socket' = [ socket EXCEPT !.pc = "close" ]
    /\ UNCHANGED << now, current_battle, tx, tables >>

\* Mutant: a receiver that lagged leaves the loop, as for a closed channel.
AfterLaggedBreaks == "exited"

\* "Lagged errors are fine" (mod.rs:210-213): the loop goes on.
AfterLagged == "select"

\* The branch of select for the channel (mod.rs:202-216) with
\* handle_server_event (mod.rs:236-266); ok is the outcome of ws.send, whose
\* error is logged.
HandleRx(ok) ==
    /\ socket.pc \in { "select", "parked" }
    /\ socket.close_stage # "closed"
    /\ LET r == Recv(tx, socket.rx)
       IN  /\ r.kind # "pending"
           /\ socket' =
                IF r.kind = "lagged"
                THEN [ socket EXCEPT !.rx = r.next, !.pc = AfterLagged ]
                ELSE
                  LET ev   == RecvValue(tx, socket.rx)
                      held == IF socket.battle = None THEN None
                              ELSE Some(Unwrap(socket.battle).uuid)
                      op   == handle_server_event(held, socket.user, ev)
                  IN  [ socket EXCEPT
                          !.rx = r.next,
                          !.pc = "select",
                          !.battle = IF ev.type = "update-battle"
                                     THEN Some(ev.battle) ELSE @,
                          !.sent = IF op # "none" /\ ok
                                   THEN start_send(@, ServerMessage(op, ev)) ELSE @ ]
    /\ UNCHANGED << now, current_battle, tx, tables >>

\* WebSocket::send_close (protocol.rs:82-94), called by the owner of a
\* running socket at the head of its loop; ok is the outcome of the send,
\* which feeds the close frame and flushes the transport.
SendClose(code, ok) ==
    /\ socket.pc = "select"
    /\ socket.close_stage = "running"
    /\ socket' = IF ok
                 THEN [ socket EXCEPT !.sent = start_send(@, CloseFrame(code)),
                                      !.close_stage = "wait",
                                      !.wait = now + CloseTimeout,
                                      !.closed_server = TRUE ]
                 ELSE Returned(socket, "err")
    /\ UNCHANGED << now, current_battle, tx, tables >>

\* The client sends a frame, or its side of the transport ends or fails.
ClientSends(ev, max_inbox, max_frames) ==
    /\ socket.pc \notin { "idle", "exited" }
    /\ Len(socket.inbox) < max_inbox
    /\ socket.frames < max_frames
    /\ \A i \in DOMAIN socket.inbox : socket.inbox[i].kind # "eof"
    /\ socket' = [ socket EXCEPT !.inbox = Append(@, ev), !.frames = @ + 1 ]
    /\ UNCHANGED << now, current_battle, tx, tables >>

\* Room::send_message, Room::update_battle, Room::send_wager_update and
\* Room::send_mobiums_change (mod.rs:86-111): the event goes on the channel,
\* and update_battle first stores the match as the current one.
RoomSend(ev, max_events) ==
    /\ tx.tail < max_events
    /\ tx' = Send(tx, ev)
    /\ current_battle' = IF ev.type = "update-battle"
                         THEN Some(ev.battle) ELSE current_battle
    /\ UNCHANGED << now, socket, tables >>

\* Time passes on the socket's clock.
Advance(step, max) ==
    /\ now < max
    /\ now' = now + step
    /\ UNCHANGED << current_battle, tx, socket, tables >>

(* ------------------------- socket specifications ---------------------- *)

MaxInbox == 2
MaxFrames == 3
MaxSeq == 2
ClockStep == 5
MaxSocketClock == 45
MaxEvents == 3
MaxLagEvents == 18

\* The session of a socket: nobody, or a logged-in user.
SocketUsers == { None, Some("u1") }

ClientFrames ==
    { Incoming("heartbeat", n) : n \in 0 .. MaxSeq }
       \cup { Incoming(k, 0) : k \in { "message", "close", "ping", "err", "eof" } }

\* One client and its frames, while time passes; nothing is sent on the Room.
NextProtocol ==
    \/ \E u \in SocketUsers, ok \in BOOLEAN : Serve(u, ok)
    \/ ServeLoop
    \/ \E ok \in BOOLEAN : PollCloseInner(ok)
    \/ \E ok \in BOOLEAN : PollHeartbeatFlush(ok)
    \/ \E ok \in BOOLEAN : PollTimeout(ok)
    \/ \E ok \in BOOLEAN : PollRead(ok)
    \/ Wake
    \/ \E ev \in ClientFrames : ClientSends(ev, MaxInbox, MaxFrames)
    \/ Advance(ClockStep, MaxSocketClock)

SpecProtocol == Init /\ [][NextProtocol]_vars

\* The matches the Room is told about: each uuid, ongoing or concluded.
RoomBattles ==
    { BattleData(m, [ status |-> st, closed_at |-> 0, participants |-> << >> ]) :
         m \in Battles, st \in { "ongoing", "concluded" } }

\* RoomEvent::MobiumsChange for a user.
MobiumsChangeEvent(u) ==
    [ type |-> "mobiums-change", user_id |-> u, mobiums |-> BailoutMobiums,
      bailout |-> TRUE ]

RoomEvents ==
    { UpdateBattleOf(d) : d \in RoomBattles }
       \cup { MobiumsChangeEvent(u) : u \in { "u1", "u2" } }
       \cup { NewMessageEvent(1), BotWagerUpdate("red", 0, 0) }

\* One client, of either user or of nobody, that sends no frame while
\* events are sent on the Room.
NextRoom ==
    \/ \E u \in SocketUsers \cup { Some("u2") }, ok \in BOOLEAN : Serve(u, ok)
    \/ ServeLoop
    \/ \E ok \in BOOLEAN : PollCloseInner(ok)
    \/ \E ok \in BOOLEAN : PollHeartbeatFlush(ok)
    \/ \E ok \in BOOLEAN : PollTimeout(ok)
    \/ \E ok \in BOOLEAN : PollRead(ok)
    \/ Wake
    \/ \E ok \in BOOLEAN : HandleRx(ok)
    \/ \E ev \in RoomEvents : RoomSend(ev, MaxEvents)

SpecRoom == Init /\ [][NextRoom]_vars

\* One client that sends no frame, over a transport that takes every write,
\* while chat messages numbered from 1 are sent on the Room, more of them
\* than the channel retains.
NextLag ==
    \/ Serve(None, TRUE)
    \/ ServeLoop
    \/ PollCloseInner(TRUE)
    \/ PollHeartbeatFlush(TRUE)
    \/ PollTimeout(TRUE)
    \/ PollRead(TRUE)
    \/ Wake
    \/ HandleRx(TRUE)
    \/ RoomSend(NewMessageEvent(tx.tail + 1), MaxLagEvents)

SpecLag == Init /\ [][NextLag]_vars

\* One client that sends heartbeats while chat messages numbered from 1 are
\* sent on the Room; the transport may refuse a write.
NextOrder ==
    \/ \E ok \in BOOLEAN : Serve(Some("u1"), ok)
    \/ ServeLoop
    \/ \E ok \in BOOLEAN : PollCloseInner(ok)
    \/ \E ok \in BOOLEAN : PollHeartbeatFlush(ok)
    \/ \E ok \in BOOLEAN : PollTimeout(ok)
    \/ \E ok \in BOOLEAN : PollRead(ok)
    \/ Wake
    \/ \E ok \in BOOLEAN : HandleRx(ok)
    \/ \E n \in 1 .. MaxSeq : ClientSends(Incoming("heartbeat", n), MaxInbox, MaxFrames)
    \/ RoomSend(NewMessageEvent(tx.tail + 1), MaxEvents)

SpecOrder == Init /\ [][NextOrder]_vars

\* The latest time a timer of the socket is set to; time that passes after
\* it changes nothing.
Horizon ==
    IF socket.pc = "idle" THEN 0
    ELSE IF socket.close_stage = "wait" /\ socket.wait > socket.heartbeater.timeout
    THEN socket.wait
    ELSE socket.heartbeater.timeout

\* The steps of the task when the transport takes every write.
TaskSteps ==
    \/ ServeLoop
    \/ PollCloseInner(TRUE)
    \/ PollHeartbeatFlush(TRUE)
    \/ PollTimeout(TRUE)
    \/ PollRead(TRUE)
    \/ Wake

\* A client that may send heartbeats and pings, over a transport that takes
\* every write, with nothing sent on the Room. The runtime polls the task
\* whenever it is runnable or woken, and time passes.
NextTimeout ==
    \/ Serve(None, TRUE)
    \/ ServeLoop
    \/ PollCloseInner(TRUE)
    \/ PollHeartbeatFlush(TRUE)
    \/ PollTimeout(TRUE)
    \/ PollRead(TRUE)
    \/ Wake
    \/ \E n \in 1 .. MaxSeq : ClientSends(Incoming("heartbeat", n), MaxInbox, MaxFrames)
    \/ ClientSends(Incoming("ping", 0), MaxInbox, MaxFrames)
    \/ Advance(ClockStep, Horizon)

SpecTimeout ==
    /\ Init
    /\ [][NextTimeout]_vars
    /\ WF_vars(TaskSteps)
    /\ WF_vars(Advance(ClockStep, Horizon))

\* Frames of a client that heartbeats once, closes, or goes on sending.
CloseFrames ==
    { Incoming("heartbeat", 1), Incoming("message", 0), Incoming("close", 0) }

\* One client and its frames, while time passes, on a socket that its owner
\* may close with send_close.
NextClose ==
    \/ \E ok \in BOOLEAN : Serve(None, ok)
    \/ ServeLoop
    \/ \E ok \in BOOLEAN : PollCloseInner(ok)
    \/ \E ok \in BOOLEAN : PollHeartbeatFlush(ok)
    \/ \E ok \in BOOLEAN : PollTimeout(ok)
    \/ \E ok \in BOOLEAN : PollRead(ok)
    \/ Wake
    \/ \E ok \in BOOLEAN : SendClose(1000, ok)
    \/ \E ev \in CloseFrames : ClientSends(ev, MaxInbox, MaxFrames)
    \/ Advance(ClockStep, MaxSocketClock)

SpecClose == Init /\ [][NextClose]_vars

(* ------------------------- rating period job --------------------------- *)

\* The job of the scheduler (main.rs:335-352) that holds the permit, up to
\* the answer of its query for the newest period (mmr/mod.rs:233-243). The
\* job runs on a connection of its own without a transaction: the requests
\* of other tasks are handled between its statements.
JobRead ==
    /\ job.pc = "idle"
    /\ \E l \in ( IF mmr.rating_period = << >> THEN { None }
                  ELSE { Some(x) : x \in LatestPeriod(mmr.rating_period) } ) :
          job' = [ pc |-> "read", period |-> l, now |-> now ]
    /\ UNCHANGED << now, battle, wager, user, session, placing, current_battle,
                    published, response, bot_enabled, tx, socket, mmr, lossy, calls >>

\* The rest of the job: the first period, or the periods closed since the
\* period the query returned (mmr/mod.rs:245-356); the permit is dropped.
JobWrite ==
    /\ job.pc = "read"
    /\ mmr' = IF job.period = None
              THEN FirstPeriod(mmr, job.now).mmr
              ELSE LET l == Unwrap(job.period)
                   IN  CloseRatingPeriods(mmr, battle,
                           [ id |-> l.id, started_at |-> l.started_at,
                             period_elapsed |-> 0 ],
                           job.now - l.started_at, TRUE).mmr
    /\ job' = NoJob
    /\ UNCHANGED << now, battle, wager, user, session, placing, current_battle,
                    published, response, bot_enabled, tx, socket, lossy, calls >>

\* The clock of the rating specification reaches two whole periods.
MaxMmrClock == 4

\* Finish times of the placement requests: a short and a long race.
FinishTimes == { Some(1), Some(35 * 30 + 1) }

\* Players registered with a rating at time 0, or before ratings existed.
InitMmr ==
    /\ now = 0
    /\ battle = << >>
    /\ wager = << >>
    /\ user = [ u \in Accounts |-> [ mobiums |-> StartMobiums, bailout_count |-> 0 ] ]
    /\ session = [ u \in Users |-> [ csrf |-> "A" ] ]
    /\ placing = {}
    /\ current_battle = None
    /\ published = << >>
    /\ response = Response("none", "ok")
    /\ bot_enabled = FALSE
    /\ tx = NewChannel
    /\ socket = NoSocket
    /\ \E rated \in SUBSET Players : mmr = Registered(rated, 0)
    /\ job = NoJob
    /\ lossy = Call(<< >>)
    /\ calls = NoCalls
    /\ lossy = Call(<< >>)
    /\ calls = NoCalls

\* A match of the two players that is created, placed and ended while the
\* clock runs and the rating period job does its work.
NextMmr ==
    \/ Tick(MaxMmrClock)
    \/ CreateBattle("m1", 0, ValidList)
    \/ \E p \in Players : PlacementCheck("m1", p)
    \/ \E req \in placing, ft \in FinishTimes : PlacementWrite(req, ft)
    \/ \E st \in StatusRequests : UpdateBattle("m1", st)
    \/ JobRead
    \/ JobWrite

SpecMmr == InitMmr /\ [][NextMmr]_vars

(* ------------------------ username specification ---------------------- *)

\* One pass of the loop of to_username_lossy.
LossyNext ==
    /\ lossy.rest # << >>
    /\ lossy' = [ lossy EXCEPT
                    !.st = LoopBody(Encode(lossy.username), @, Head(lossy.rest)),
                    !.rest = Tail(@) ]
    /\ UNCHANGED << now, battle, wager, user, session, placing, current_battle,
                    published, response, bot_enabled, tx, socket, mmr, job, calls >>

\* The end of to_username_lossy.
LossyReturn ==
    /\ lossy.rest = << >>
    /\ lossy.out = None
    /\ lossy' = [ lossy EXCEPT !.out = Some(AfterLoop(Encode(lossy.username), lossy.st)) ]
    /\ UNCHANGED << now, battle, wager, user, session, placing, current_battle,
                    published, response, bot_enabled, tx, socket, mmr, job, calls >>

\* to_username_lossy called with any string of the bounded length.
InitUsername ==
    /\ now = 0
    /\ battle = << >>
    /\ wager = << >>
    /\ user = [ u \in Accounts |-> [ mobiums |-> StartMobiums, bailout_count |-> 0 ] ]
    /\ session = [ u \in Users |-> [ csrf |-> "A" ] ]
    /\ placing = {}
    /\ current_battle = None
    /\ published = << >>
    /\ response = Response("none", "ok")
    /\ bot_enabled = FALSE
    /\ tx = NewChannel
    /\ socket = NoSocket
    /\ mmr = NoRatings
    /\ job = NoJob
    /\ \E chars \in Usernames(MaxUsernameLen) : lossy = Call(chars)
    /\ calls = NoCalls

NextUsername == LossyNext \/ LossyReturn

SpecUsername == InitUsername /\ [][NextUsername]_vars

(* ----------------------- Room::update_battle calls --------------------- *)

\* The most calls of Room::update_battle that run together.
MaxCalls == 3

\* First statement of Room::update_battle (room/mod.rs:93): the call takes
\* the write lock, stores the match in the cell and releases the lock at
\* the end of the statement.
UpdateBattleWrite(data) ==
    /\ Len(calls.written) < MaxCalls
    /\ \A i \in DOMAIN calls.written : calls.written[i] # data
    /\ current_battle' = Some(data)
    /\ calls' = [ written |-> Append(calls.written, data),
                  pending |-> calls.pending \cup { data } ]
    /\ UNCHANGED << now, battle, wager, user, session, placing, published,
                    response, bot_enabled, tx, socket, mmr, job, lossy >>

\* Second statement (room/mod.rs:94-97): the call sends the event.
UpdateBattleSend(data) ==
    /\ data \in calls.pending
    /\ tx' = Send(tx, UpdateBattleOf(data))
    /\ calls' = [ calls EXCEPT !.pending = @ \ { data } ]
    /\ UNCHANGED << now, battle, wager, user, session, placing, published,
                    response, bot_enabled, current_battle, socket, mmr, job, lossy >>

\* Handlers on the threads of the runtime call Room::update_battle, each
\* with another match.
NextCalls ==
    \/ \E data \in RoomBattles : UpdateBattleWrite(data)
    \/ \E data \in RoomBattles : UpdateBattleSend(data)

SpecCalls == Init /\ [][NextCalls]_vars

(* ------------------------ Room::serve in two steps --------------------- *)

\* First statement of Room::serve (room/mod.rs:117): the task takes the read
\* lock and clones the current match. The handlers of other requests run
\* on the other threads of the runtime before the task goes on.
ServeRead(socket_user) ==
    /\ socket.pc = "idle"
    /\ socket' = [ NewSocket(socket_user, current_battle, tx, now) EXCEPT
                     !.pc = "subscribing" ]
    /\ UNCHANGED << now, current_battle, tx, tables >>

\* The rest of Room::serve and the head of serve (room/mod.rs:121-135,
\* 174-178): get_handle subscribes to the channel, and new-battle is sent
\* for the snapshot read before; ok is whether the transport takes the frame.
ServeSubscribe(ok) ==
    /\ socket.pc = "subscribing"
    /\ LET s == NewSocket(socket.user, socket.battle, tx, now)
       IN  socket' =
             IF socket.battle # None /\ ok
             THEN [ s EXCEPT !.sent =
                      start_send(@, ServerMessage("new-battle",
                                       UpdateBattleOf(Unwrap(socket.battle)))) ]
             ELSE s
    /\ UNCHANGED << now, current_battle, tx, tables >>

\* A client connects while handlers call Room::update_battle.
NextServe ==
    \/ \E u \in SocketUsers : ServeRead(u)
    \/ \E ok \in BOOLEAN : ServeSubscribe(ok)
    \/ \E data \in RoomBattles : UpdateBattleWrite(data)
    \/ \E data \in RoomBattles : UpdateBattleSend(data)

SpecServe == Init /\ [][NextServe]_vars

(* ------------------------- failing transactions ------------------------ *)

\* Where the store may fail an update.
FailurePoints == { "before", "commit" }

\* One match on which two users wager and whose update may fail, once or
\* more, before it goes through; creates with a missing player roll back.
NextAbort ==
    \/ \E pl \in ParticipantLists : CreateBattle("m1", 0, pl)
    \/ \E u \in { "u1", "u2" }, t \in Teams :
          WagerCreate(u, "m1", t, Stake[u], session[u].csrf)
    \/ \E p \in Players : PlacementCheck("m1", p)
    \/ \E req \in placing, ft \in { Some(1), Some(2) } : PlacementWrite(req, ft)
    \/ \E st \in StatusRequests : UpdateBattle("m1", st)
    \/ \E st \in StatusRequests, at \in FailurePoints : UpdateBattleAborted("m1", st, at)

SpecAbort == Init /\ [][NextAbort]_vars

(* ------------------------------ properties ---------------------------- *)

\* The team a stored wager is on: the victor column holds 0 for red and 1
\* for blue.
ClaimVictor(u, m) == IF wager[<< u, m >>].victor = 0 THEN "red" ELSE "blue"

\* The pot of one team as the wager table shows it.
ClaimPot(m, team) ==
    LET rows == { u \in Users : << u, m >> \in DOMAIN wager /\ ClaimVictor(u, m) = team }
    IN  SumOver(rows, [u \in rows |-> wager[<< u, m >>].mobiums])

\* The users who hold a wager on match m.
ClaimWagerers(m) == { u \in Users : << u, m >> \in DOMAIN wager }

\* The teams of the participants with the least finish time of match m.
ClaimWinners(m) ==
    LET ps == battle[m].participants
        done == { i \in DOMAIN ps : ps[i].finish_time # {} }
    IN  { ps[i].team : i \in { j \in done : \A k \in done :
              (CHOOSE x \in ps[j].finish_time : TRUE) <=
              (CHOOSE x \in ps[k].finish_time : TRUE) } }

\* floor(total * mobiums / pot of the winning team) - mobiums for a wager on
\* the winning team w, - mobiums for any other.
ClaimDelta(u, m, w) ==
    LET row == wager[<< u, m >>]
    IN  IF ClaimVictor(u, m) = w
        THEN ((ClaimPot(m, "red") + ClaimPot(m, "blue")) * row.mobiums)
                 \div ClaimPot(m, w) - row.mobiums
        ELSE - row.mobiums

\* Match m is ongoing and this step concludes it with both pots positive
\* and a participant that finished.
ConcludesWithPots(m) ==
    /\ battle[m].status = "ongoing"
    /\ UpdateBattle(m, {"concluded"})
    /\ ClaimPot(m, "red") > 0
    /\ ClaimPot(m, "blue") > 0
    /\ ClaimWinners(m) # {}

\* C1: the status of a match only ever goes from ongoing to concluded or
\* cancelled, and an update aimed at a match that is no longer ongoing is
\* rejected as already concluded and leaves the match as it was.
C1_StatusOnlyLeavesOngoing ==
    [][ /\ \A m \in DOMAIN battle :
              /\ m \in DOMAIN battle'
              /\ battle'[m].status # battle[m].status =>
                    /\ battle[m].status = "ongoing"
                    /\ battle'[m].status \in {"concluded", "cancelled"}
        /\ \A m \in DOMAIN battle, st \in StatusRequests :
              (battle[m].status # "ongoing" /\ UpdateBattle(m, st)) =>
                  /\ response' = [ op |-> "update", code |-> "already-concluded" ]
                  /\ battle' = battle
                  /\ user' = user ]_vars

\* An update was just rejected on a cancelled match.
C1_Witness ==
    /\ response = [ op |-> "update", code |-> "already-concluded" ]
    /\ \E m \in DOMAIN battle : battle[m].status = "cancelled"

\* C2: when a match is concluded with both pots positive, there is a
\* winning team for which every wagering user that is not bailed out has the
\* balance changed by floor(total * mobiums / winning pot) - mobiums if the
\* wager was on that team and by - mobiums otherwise; a user that is bailed
\* out had a balance of at most 0 by that formula; users without a wager
\* keep their balance.
C2_PayoutFormula ==
    [][ \A m \in DOMAIN battle : ConcludesWithPots(m) =>
          \E w \in ClaimWinners(m) :
             /\ \A u \in ClaimWagerers(m) :
                   LET computed == user[u].mobiums + ClaimDelta(u, m, w)
                   IN  IF user'[u].bailout_count = user[u].bailout_count
                       THEN user'[u].mobiums = computed
                       ELSE computed <= 0
             /\ \A u \in Users \ ClaimWagerers(m) : user'[u] = user[u] ]_vars

\* A concluded match paid a winner a share that was rounded down.
C2_Witness ==
    \E m \in DOMAIN battle, u \in Users :
       /\ battle[m].status = "concluded"
       /\ Len(published) > 1
       /\ << u, m >> \in DOMAIN wager
       /\ ClaimPot(m, ClaimVictor(u, m)) > 0
       /\ LET total == ClaimPot(m, "red") + ClaimPot(m, "blue")
              mine == wager[<< u, m >>].mobiums
              pot == ClaimPot(m, ClaimVictor(u, m))
          IN  /\ (total * mine) % pot # 0
              /\ user[u].mobiums = StartMobiums + (total * mine) \div pot - mine

\* The MobiumsChange message for user u is among the messages of this step.
ClaimEventSent(u, mobiums, bailout) ==
    \E i \in DOMAIN published' :
       published'[i] = [ type |-> "mobiums-change", user_id |-> u,
                         mobiums |-> mobiums, bailout |-> bailout ]

\* C3: at settlement a user is bailed out (balance 100, bailout counter one
\* higher, message with bailout true) exactly when the computed balance is
\* at most 0 and the user lacks the unlimited-wagers flag; every other user,
\* a user with the flag included, keeps the computed balance and the counter.
C3_BailoutUnlessUnlimited ==
    [][ \A m \in DOMAIN battle : ConcludesWithPots(m) =>
          \E w \in ClaimWinners(m) : \A u \in ClaimWagerers(m) :
             LET computed == user[u].mobiums + ClaimDelta(u, m, w)
             IN  IF computed <= 0 /\ u \notin Unlimited
                 THEN /\ user'[u] = [ mobiums |-> 100,
                                      bailout_count |-> user[u].bailout_count + 1 ]
                      /\ ClaimEventSent(u, 100, TRUE)
                 ELSE /\ user'[u] = [ mobiums |-> computed,
                                      bailout_count |-> user[u].bailout_count ]
                      /\ ClaimEventSent(u, computed, FALSE) ]_vars

\* C4: every participant of a concluded or cancelled match has a finish
\* time or is marked no_contest.
C4_TerminalParticipantsSettled ==
    \A m \in DOMAIN battle :
       battle[m].status \in {"concluded", "cancelled"} =>
          \A i \in DOMAIN battle[m].participants :
             \/ battle[m].participants[i].finish_time # {}
             \/ battle[m].participants[i].no_contest

\* A match has ended with one participant that finished and one that was
\* marked no_contest for want of a finish time.
C4_Witness ==
    \E m \in DOMAIN battle :
       /\ battle[m].status \in {"concluded", "cancelled"}
       /\ \E i, j \in DOMAIN battle[m].participants :
             /\ battle[m].participants[i].finish_time = {}
             /\ battle[m].participants[i].no_contest
             /\ battle[m].participants[j].finish_time # {}
             /\ ~ battle[m].participants[j].no_contest

\* C5: cancelling an ongoing match changes no balance, bailout counter or
\* wager, and the only message of the step is the match with status
\* cancelled, which replaces the Room's current match and which a socket
\* holding that match forwards as battle-update.
C5_CancelRunsNoSettlement ==
    [][ \A m \in DOMAIN battle :
          (battle[m].status = "ongoing" /\ UpdateBattle(m, {"cancelled"})) =>
             /\ user' = user
             /\ wager' = wager
             /\ battle'[m].status = "cancelled"
             /\ Len(published') = 1
             /\ published'[1].type = "update-battle"
             /\ published'[1].battle.uuid = m
             /\ published'[1].battle.status = "cancelled"
             /\ current_battle' = { published'[1].battle }
             /\ handle_server_event({m}, {}, published'[1]) = "battle-update" ]_vars

\* A match with positive pots on both teams and a finisher was just
\* cancelled.
C5_Witness ==
    \E m \in DOMAIN battle :
       /\ battle[m].status = "cancelled"
       /\ response = [ op |-> "update", code |-> "ok" ]
       /\ Len(published) = 1
       /\ published[1].type = "update-battle"
       /\ published[1].battle.status = "cancelled"
       /\ ClaimPot(m, "red") > 0
       /\ ClaimPot(m, "blue") > 0
       /\ ClaimWinners(m) # {}

\* C6: a wager upsert that asks for more than the balance, and is otherwise
\* in order, is rejected with not-enough-mobiums exactly when the user lacks
\* the unlimited-wagers flag; with the flag it is stored.
C6_NotEnoughOnlyWithoutFlag ==
    [][ \A u \in Users, m \in DOMAIN battle, t \in Teams,
           a \in WagerAmounts, c \in CsrfTokens :
          ( /\ response'.op = "wager"
            /\ c = session[u].csrf
            /\ a > user[u].mobiums
            /\ battle[m].status = "ongoing"
            /\ now <= battle[m].closed_at + 3
            /\ WagerCreate(u, m, t, a, c) ) =>
             IF u \in Unlimited
             THEN /\ response' = [ op |-> "wager", code |-> "ok" ]
                  /\ wager'[<< u, m >>].mobiums = a
             ELSE /\ response' = [ op |-> "wager", code |-> "not-enough-mobiums" ]
                  /\ wager' = wager ]_vars

\* C7: a wager upsert that passes the token, amount and team checks on an
\* existing match is accepted exactly when the match is ongoing and the
\* clock is at most 3 seconds past closed_at, and is rejected as invalid
\* data without a change otherwise; no wager of a match that is concluded or
\* cancelled is created or changed.
C7_BetWindow ==
    [][ /\ \A u \in Users, m \in DOMAIN battle, t \in Teams,
              a \in WagerAmounts, c \in CsrfTokens :
             ( /\ response'.op = "wager"
               /\ c = session[u].csrf
               /\ a >= 0
               /\ a <= user[u].mobiums
               /\ \E i \in DOMAIN battle[m].participants :
                     battle[m].participants[i].team = t
               /\ WagerCreate(u, m, t, a, c) ) =>
                IF battle[m].status = "ongoing" /\ now <= battle[m].closed_at + 3
                THEN /\ response' = [ op |-> "wager", code |-> "ok" ]
                     /\ wager'[<< u, m >>].victor = (IF t = "red" THEN 0 ELSE 1)
                     /\ wager'[<< u, m >>].mobiums = a
                ELSE /\ response' = [ op |-> "wager", code |-> "invalid-data" ]
                     /\ wager' = wager
        /\ \A key \in DOMAIN wager' :
              battle[key[2]].status # "ongoing" =>
                 /\ key \in DOMAIN wager
                 /\ wager'[key] = wager[key] ]_vars

\* A wager was accepted at the last instant of the grace period.
C7_Witness ==
    \E m \in DOMAIN battle :
       /\ battle[m].status = "ongoing"
       /\ now = battle[m].closed_at + 3
       /\ response = [ op |-> "wager", code |-> "ok" ]

\* C8: a wager upsert whose token differs from the token of the session is
\* rejected with invalid-csrf-token and changes nothing; a successful upsert
\* carried the token of the session and leaves the session with another
\* token, so the same token sent again is rejected; an upsert rejected for
\* any reason leaves the session's token and the wagers as they were.
C8_CsrfRotation ==
    [][ \A u \in Users, m \in Battles, t \in Teams,
           a \in WagerAmounts, c \in CsrfTokens :
          (response'.op = "wager" /\ WagerCreate(u, m, t, a, c)) =>
             /\ c # session[u].csrf =>
                   /\ response' = [ op |-> "wager", code |-> "invalid-csrf-token" ]
                   /\ wager' = wager
                   /\ session' = session
             /\ response' = [ op |-> "wager", code |-> "ok" ] =>
                   /\ c = session[u].csrf
                   /\ session'[u].csrf # c
                   /\ \A v \in Users \ {u} : session'[v] = session[v]
             /\ response' # [ op |-> "wager", code |-> "ok" ] =>
                   /\ session' = session
                   /\ wager' = wager ]_vars

\* Every session that wagers has rotated its token, and an upsert was just
\* rejected for its token: the token it carried was a replaced one.
C8_Witness ==
    /\ response = [ op |-> "wager", code |-> "invalid-csrf-token" ]
    /\ \A u \in Users : session[u].csrf = "A" => u \notin ClaimWagerers("m1")
    /\ ClaimWagerers("m1") # {}

\* C9: the balance of a user without the unlimited-wagers flag is never
\* negative, wagers on several matches at once included.
C9_NoNegativeBalance ==
    \A u \in Users \ Unlimited : user[u].mobiums >= 0

\* The first match was just concluded and bailed u1 out, while the wager
\* of u1 on the second match, as large as the whole balance, is still open.
C9_Witness ==
    /\ DOMAIN battle = {"m1", "m2"}
    /\ battle["m1"].status = "concluded"
    /\ battle["m2"].status = "ongoing"
    /\ response = [ op |-> "update", code |-> "ok" ]
    /\ user["u1"].bailout_count = 1
    /\ << "u1", "m2" >> \in DOMAIN wager
    /\ wager[<< "u1", "m2" >>].mobiums >= user["u1"].mobiums

\* C10: concluding a match of which a pot is 0 or less changes no balance
\* and no bailout counter and sends no balance-change message.
C10_EmptyPotNoSettlement ==
    [][ \A m \in DOMAIN battle :
          ( /\ battle[m].status = "ongoing"
            /\ UpdateBattle(m, {"concluded"})
            /\ (ClaimPot(m, "red") <= 0 \/ ClaimPot(m, "blue") <= 0) ) =>
             /\ user' = user
             /\ wager' = wager
             /\ \A i \in DOMAIN published' : published'[i].type # "mobiums-change" ]_vars

\* A match was just concluded with a finisher on the one team that carried
\* a positive wager, and no balance-change message went out.
C10_Witness ==
    \E m \in DOMAIN battle, w \in Teams :
       /\ battle[m].status = "concluded"
       /\ response = [ op |-> "update", code |-> "ok" ]
       /\ Len(published) = 1
       /\ ClaimPot(m, w) > 0
       /\ ClaimPot(m, CHOOSE t \in Teams : t # w) = 0
       /\ ClaimWinners(m) = {w}

\* C11: when a match is concluded with both pots positive, the team that is
\* paid as the winner is the team of a participant with the least finish
\* time among the participants not marked no_contest; when every
\* participant is marked no_contest, no balance changes and no
\* balance-change message is sent.
C11_WinnerHasLeastFinishTime ==
    [][ \A m \in DOMAIN battle :
          ( /\ battle[m].status = "ongoing"
            /\ UpdateBattle(m, {"concluded"})
            /\ ClaimPot(m, "red") > 0
            /\ ClaimPot(m, "blue") > 0 ) =>
             LET ps == battle'[m].participants
                 cand == { i \in DOMAIN ps : ~ ps[i].no_contest }
             IN  IF cand = {}
                 THEN /\ user' = user
                      /\ \A i \in DOMAIN published' :
                            published'[i].type # "mobiums-change"
                 ELSE \E i \in cand :
                         /\ ps[i].finish_time # {}
                         /\ \A k \in cand :
                               /\ ps[k].finish_time # {}
                               /\ (CHOOSE x \in ps[i].finish_time : TRUE) <=
                                  (CHOOSE x \in ps[k].finish_time : TRUE)
                         /\ \A u \in ClaimWagerers(m) :
                               LET computed == user[u].mobiums + ClaimDelta(u, m, ps[i].team)
                               IN  \/ ClaimEventSent(u, computed, FALSE)
                                   \/ computed <= 0 /\ ClaimEventSent(u, 100, TRUE) ]_vars

\* The blue participant, second in the list, finished before the red one
\* and a wager on blue was paid.
C11_Witness ==
    \E m \in DOMAIN battle, u \in Users :
       /\ battle[m].status = "concluded"
       /\ response = [ op |-> "update", code |-> "ok" ]
       /\ battle[m].participants[1].team = "red"
       /\ battle[m].participants[1].finish_time = {2}
       /\ battle[m].participants[2].team = "blue"
       /\ battle[m].participants[2].finish_time = {1}
       /\ << u, m >> \in DOMAIN wager
       /\ ClaimVictor(u, m) = "blue"
       /\ user[u].mobiums > StartMobiums

\* C12 (as first stated): after a successful wager upsert (team, mobiums)
\* at time now, the user's read of their own wager on the match returns the
\* written team, mobiums and updated_at = now, for mobiums = 0 as well.
C12_UpsertThenReadAlways ==
    [][ \A u \in Users, m \in DOMAIN battle, t \in Teams,
           a \in WagerAmounts, c \in CsrfTokens :
          ( /\ response' = [ op |-> "wager", code |-> "ok" ]
            /\ WagerCreate(u, m, t, a, c) ) =>
             show_self(battle', wager', u, m) =
                 [ op |-> "show_self", code |-> "ok", victor |-> t,
                   mobiums |-> a, updated_at |-> now ] ]_vars

\* C12 (amended): after a successful wager upsert (team, mobiums) at time
\* now the wager table holds the row of the user and the match with the
\* written mobiums and updated_at = now; the user's read of their own wager
\* returns the written team, mobiums and updated_at when mobiums > 0, and
\* not-found when mobiums = 0, the row being kept with mobiums = 0.
C12_UpsertThenRead ==
    [][ \A u \in Users, m \in DOMAIN battle, t \in Teams,
           a \in WagerAmounts, c \in CsrfTokens :
          ( /\ response' = [ op |-> "wager", code |-> "ok" ]
            /\ WagerCreate(u, m, t, a, c) ) =>
             /\ << u, m >> \in DOMAIN wager'
             /\ wager'[<< u, m >>].mobiums = a
             /\ wager'[<< u, m >>].updated_at = now
             /\ \A key \in DOMAIN wager' \ {<< u, m >>} :
                   key \in DOMAIN wager /\ wager'[key] = wager[key]
             /\ IF a > 0
                THEN show_self(battle', wager', u, m) =
                         [ op |-> "show_self", code |-> "ok", victor |-> t,
                           mobiums |-> a, updated_at |-> now ]
                ELSE show_self(battle', wager', u, m) =
                         [ op |-> "show_self", code |-> "not-found" ] ]_vars

\* A wager was just withdrawn, a second after the match was created: the
\* row is kept with mobiums = 0 and the read finds no wager.
C12_Witness ==
    \E u \in Users, m \in DOMAIN battle :
       /\ response = [ op |-> "wager", code |-> "ok" ]
       /\ << u, m >> \in DOMAIN wager
       /\ wager[<< u, m >>].mobiums = 0
       /\ wager[<< u, m >>].updated_at = now
       /\ now > 0
       /\ show_self(battle, wager, u, m) = [ op |-> "show_self", code |-> "not-found" ]

\* The number of human wagers with mobiums > 0 on a team of match m once
\* user u has upserted (t, a).
ClaimHumanCount(u, t, a, m, team) ==
    Cardinality({ v \in Users :
        IF v = u THEN t = team /\ a > 0
        ELSE /\ << v, m >> \in DOMAIN wager
             /\ ClaimVictor(v, m) = team
             /\ wager[<< v, m >>].mobiums > 0 })

\* The bot holds a wager with mobiums > 0 on a team of match m.
ClaimBotOn(m, team) ==
    /\ << "bot", m >> \in DOMAIN wager
    /\ ClaimVictor("bot", m) = team
    /\ wager[<< "bot", m >>].mobiums > 0

\* This step stores the bot's wager (team, mobiums) on match m and sends
\* the wager-update for it.
ClaimBotSet(m, team, mobiums) ==
    /\ << "bot", m >> \in DOMAIN wager'
    /\ wager'[<< "bot", m >>].victor = (IF team = "red" THEN 0 ELSE 1)
    /\ wager'[<< "bot", m >>].mobiums = mobiums
    /\ \E i \in DOMAIN published' :
          /\ published'[i].type = "wager-update"
          /\ published'[i].user = "bot"
          /\ published'[i].victor = team
          /\ published'[i].mobiums = mobiums

\* This step leaves the bot's wagers alone and sends no wager-update for
\* the bot.
ClaimBotUntouched ==
    /\ \A key \in DOMAIN wager' :
          key[1] = "bot" => key \in DOMAIN wager /\ wager'[key] = wager[key]
    /\ \A i \in DOMAIN published' : published'[i].user # "bot"

\* User u's upsert (t, a) on match m is accepted in this step.
ClaimUpserts(u, m, t, a, c) ==
    /\ response' = [ op |-> "wager", code |-> "ok" ]
    /\ WagerCreate(u, m, t, a, c)

\* C13 (as first stated): with the bot enabled, after a human wager upsert,
\* if exactly one team has no positive human wager and no positive bot
\* wager, the bot's wager is set to that team with the configured amount and
\* a wager-update for the bot is published.
C13_BotBacksTheOneBareTeam ==
    [][ \A u \in Users, m \in DOMAIN battle, t \in Teams,
           a \in WagerAmounts, c \in CsrfTokens :
          ClaimUpserts(u, m, t, a, c) =>
             LET bare == { team \in Teams :
                             /\ ClaimHumanCount(u, t, a, m, team) = 0
                             /\ ~ ClaimBotOn(m, team) }
             IN  Cardinality(bare) = 1 =>
                    \A team \in bare : ClaimBotSet(m, team, 400) ]_vars

\* C13 (amended): with the bot enabled, after a human wager upsert, if
\* exactly one team has no positive human wager, and that team has no
\* positive bot wager, the bot's wager is set to that team with the
\* configured amount and a wager-update for the bot is published; if that
\* team carries the bot's wager already, the bot's wager is left alone.
C13_BotBacksTheOneTeamWithoutHumans ==
    [][ \A u \in Users, m \in DOMAIN battle, t \in Teams,
           a \in WagerAmounts, c \in CsrfTokens :
          ClaimUpserts(u, m, t, a, c) =>
             LET lonely == { team \in Teams : ClaimHumanCount(u, t, a, m, team) = 0 }
             IN  Cardinality(lonely) = 1 =>
                    \A team \in lonely :
                       IF ClaimBotOn(m, team)
                       THEN ClaimBotUntouched
                       ELSE ClaimBotSet(m, team, 400) ]_vars

\* The first human wager went on red, and the bot's wager of 400 on blue
\* appeared with it.
C13_Witness ==
    /\ response = [ op |-> "wager", code |-> "ok" ]
    /\ bot_enabled
    /\ \E m \in DOMAIN battle :
          /\ ClaimBotOn(m, "blue")
          /\ wager[<< "bot", m >>].mobiums = 400
          /\ \E u \in Users : /\ << u, m >> \in DOMAIN wager
                              /\ ClaimVictor(u, m) = "red"
                              /\ wager[<< u, m >>].mobiums > 0
          /\ Len(published) = 2
          /\ published[1].user = "bot"
          /\ published[1].mobiums = 400

\* C14 (as first stated): with the bot enabled, after a human wager upsert,
\* whenever it is not the case that exactly one team has neither a positive
\* human wager nor a positive bot wager, the bot wager of every team that
\* carries one is set to 0 and a wager-update for it is published.
C14_BotWithdrawsOtherwise ==
    [][ \A u \in Users, m \in DOMAIN battle, t \in Teams,
           a \in WagerAmounts, c \in CsrfTokens :
          ClaimUpserts(u, m, t, a, c) =>
             LET bare == { team \in Teams :
                             /\ ClaimHumanCount(u, t, a, m, team) = 0
                             /\ ~ ClaimBotOn(m, team) }
             IN  Cardinality(bare) # 1 =>
                    \A team \in Teams :
                       ClaimBotOn(m, team) => ClaimBotSet(m, team, 0) ]_vars

\* C14 (amended): with the bot enabled, after a human wager upsert,
\* whenever the number of teams without a positive human wager is not
\* exactly one (humans on both sides, or on neither), the bot wager of every
\* team that carries one is set to 0 and a wager-update for it is
\* published; when the only team without a positive human wager carries the
\* bot's wager, that wager is kept and no wager-update for the bot is sent.
C14_BotWithdrawsUnlessCountering ==
    [][ \A u \in Users, m \in DOMAIN battle, t \in Teams,
           a \in WagerAmounts, c \in CsrfTokens :
          ClaimUpserts(u, m, t, a, c) =>
             LET lonely == { team \in Teams : ClaimHumanCount(u, t, a, m, team) = 0 }
             IN  IF Cardinality(lonely) # 1
                 THEN \A team \in Teams :
                         ClaimBotOn(m, team) => ClaimBotSet(m, team, 0)
                 ELSE \A team \in lonely :
                         ClaimBotOn(m, team) => ClaimBotUntouched ]_vars

\* Humans hold positive wagers on both teams, and the wager the bot held
\* was set to 0 by the upsert that was just accepted.
C14_Witness ==
    /\ response = [ op |-> "wager", code |-> "ok" ]
    /\ bot_enabled
    /\ \E m \in DOMAIN battle :
          /\ << "bot", m >> \in DOMAIN wager
          /\ wager[<< "bot", m >>].mobiums = 0
          /\ \A team \in Teams : \E u \in Users :
                /\ << u, m >> \in DOMAIN wager
                /\ ClaimVictor(u, m) = team
                /\ wager[<< u, m >>].mobiums > 0
          /\ Len(published) = 2
          /\ published[1].user = "bot"
          /\ published[1].mobiums = 0

\* The heartbeat-acks among the frames a socket has sent.
ClaimAcks(sent) == SelectSeq(sent, LAMBDA f : f.op = "heartbeat-ack")

\* The highest seq acknowledged on the frames sent, 0 before the first ack.
ClaimHighest(sent) ==
    LET acks == ClaimAcks(sent)
    IN  IF acks = << >> THEN 0 ELSE acks[Len(acks)].seq

\* C15: when the socket reads a heartbeat whose seq is not above the highest
\* seq acknowledged, it sends no heartbeat-ack and leaves the liveness timer
\* alone; when the seq is higher it resets the timer and sends exactly one
\* heartbeat-ack with that seq (the read fails instead when the transport
\* refuses the frame); the seqs of the acks sent are strictly increasing.
C15_HeartbeatAcks ==
    [][ /\ ( /\ socket.pc = "read"
            /\ socket.inbox # << >>
            /\ Head(socket.inbox).kind = "heartbeat"
            /\ \E ok \in BOOLEAN : PollRead(ok) ) =>
              LET seq == Head(socket.inbox).seq
              IN  IF seq <= ClaimHighest(socket.sent)
                  THEN /\ socket'.sent = socket.sent
                       /\ socket'.heartbeater.timeout = socket.heartbeater.timeout
                       /\ socket'.result = "msg"
                  ELSE /\ socket'.heartbeater.timeout =
                             now + HeartbeatInterval + HEARTBEAT_GRACE_DURATION
                       /\ \/ /\ socket'.sent = Append(socket.sent, HeartbeatAck(seq))
                             /\ socket'.result = "msg"
                          \/ /\ socket'.sent = socket.sent
                             /\ socket'.result = "err"
        /\ socket'.pc # "idle" =>
              LET acks == ClaimAcks(socket'.sent)
              IN  \A i, j \in DOMAIN acks : i < j => acks[i].seq < acks[j].seq
      ]_vars

\* The client sent three heartbeats, one of them stale, and the socket has
\* answered the other two with the acks 1 and 2, the second after time
\* passed.
C15_Witness ==
    /\ socket.pc # "idle"
    /\ socket.close_stage = "running"
    /\ socket.frames = 3
    /\ socket.inbox = << >>
    /\ socket.result = "msg"
    /\ socket.sent = << HeartbeatAck(1), HeartbeatAck(2) >>
    /\ socket.heartbeater.seq = 2
    /\ socket.heartbeater.timeout = now + HeartbeatInterval

\* C16: once the heartbeat timer of a running socket has expired, the
\* socket has sent a close frame with code 1002 and reaches closed, the read
\* returning end, whatever the client and the Room do from then on.
C16_TimeoutClosesSocket ==
    ( /\ socket.pc # "idle"
      /\ socket.close_stage = "running"
      /\ now >= socket.heartbeater.timeout )
       ~> ( /\ socket.close_stage = "closed"
            /\ socket.result = "end"
            /\ \E i \in DOMAIN socket.sent : socket.sent[i] = CloseFrame(1002) )

\* C17: when a running socket reads a client close frame it records the
\* client close and, if the transport takes the 1001 close frame, moves to
\* flushing, else it goes to closed and the read returns end; a socket that
\* has seen the client close goes from flushing to closing and from closing
\* to closed (or the read fails with the transport), and is never in wait.
C17_ClientClose ==
    [][ /\ ( /\ socket.pc = "read"
            /\ socket.close_stage = "running"
            /\ socket.inbox # << >>
            /\ Head(socket.inbox).kind = "close"
            /\ \E ok \in BOOLEAN : PollRead(ok) ) =>
              /\ socket'.closed_client
              /\ \/ /\ socket'.sent = Append(socket.sent, CloseFrame(1001))
                    /\ socket'.close_stage = "flushing"
                    /\ socket'.pc = "close"
                    /\ socket'.result = socket.result
                 \/ /\ socket'.sent = socket.sent
                    /\ socket'.close_stage = "closed"
                    /\ socket'.pc = "exited"
                    /\ socket'.result = "end"
        /\ ( /\ socket.closed_client
            /\ socket.close_stage \in { "flushing", "closing" }
            /\ \E ok \in BOOLEAN : PollCloseInner(ok) ) =>
              \/ /\ socket'.close_stage =
                       IF socket.close_stage = "flushing" THEN "closing" ELSE "closed"
                 /\ socket'.pc = "close"
              \/ /\ socket'.close_stage = socket.close_stage
                 /\ socket'.result = "err"
        /\ socket'.closed_client => socket'.close_stage # "wait"
      ]_vars

\* The socket answered the client's close frame with 1001 and went through
\* flushing and closing to closed without ever waiting; the read returned
\* end.
C17_Witness ==
    /\ socket.pc = "exited"
    /\ socket.close_stage = "closed"
    /\ socket.closed_client
    /\ socket.closed_server
    /\ socket.result = "end"
    /\ socket.sent = << CloseFrame(1001) >>
    /\ socket.wait = 0

\* The event the socket takes from the channel in a step of HandleRx.
ClaimEvent == RecvValue(tx, socket.rx)

ClaimReceives(type) ==
    /\ socket.pc \in { "select", "parked" }
    /\ Recv(tx, socket.rx).kind = "ok"
    /\ ClaimEvent.type = type
    /\ \E ok \in BOOLEAN : HandleRx(ok)

\* The socket hands one more frame to the transport, with this op.
ClaimSends(op) ==
    /\ Len(socket'.sent) = Len(socket.sent) + 1
    /\ SubSeq(socket'.sent, 1, Len(socket.sent)) = socket.sent
    /\ socket'.sent[Len(socket'.sent)].op = op

\* C18: a socket sends a balance-change only for a balance-change event it
\* takes from the channel whose user_id is the id of the socket's user, and
\* for such an event it sends one whenever the transport takes the write; a
\* socket of another user or of nobody sends none.
C18_BalanceChangeOnlyToItsUser ==
    [][ /\ ClaimSends("mobiums-change") =>
              /\ ClaimReceives("mobiums-change")
              /\ socket.user = { ClaimEvent.user_id }
        /\ ClaimReceives("mobiums-change") =>
              IF socket.user = { ClaimEvent.user_id }
              THEN ClaimSends("mobiums-change") \/ (HandleRx(FALSE) /\ socket'.sent = socket.sent)
              ELSE socket'.sent = socket.sent
        /\ ( ClaimReceives("mobiums-change") /\ HandleRx(TRUE)
               /\ socket.user = { ClaimEvent.user_id } ) =>
              ClaimSends("mobiums-change")
      ]_vars

\* The socket of u1 has taken a balance-change of u2 and one of u1 from the
\* channel and has sent exactly one balance-change.
C18_Witness ==
    /\ socket.pc # "idle"
    /\ socket.user = { "u1" }
    /\ tx.buffer = << MobiumsChangeEvent("u2"), MobiumsChangeEvent("u1") >>
    /\ socket.rx = 2
    /\ socket.sent = << ServerMessage("mobiums-change", MobiumsChangeEvent("u1")) >>

\* C19: for a match event the socket takes from the channel it sends
\* new-battle when it holds no match or one with another uuid, and
\* battle-update when it holds the match with that uuid (nothing when the
\* transport refuses the write), and afterwards it holds the event's match.
C19_NewBattleOrUpdate ==
    [][ ClaimReceives("update-battle") =>
          LET uuid == ClaimEvent.battle.uuid
              op   == IF socket.battle = None \/ \A b \in socket.battle : b.uuid # uuid
                      THEN "new-battle" ELSE "battle-update"
          IN  /\ socket'.battle = { ClaimEvent.battle }
              /\ \/ /\ ClaimSends(op)
                    /\ socket'.sent[Len(socket'.sent)].uuid = uuid
                 \/ /\ HandleRx(FALSE)
                    /\ socket'.sent = socket.sent
              /\ HandleRx(TRUE) => ClaimSends(op)
      ]_vars

\* The socket, connected before any match, has taken m1 ongoing, m1
\* concluded and m2 ongoing from the channel and sent new-battle,
\* battle-update and new-battle; it holds m2.
C19_Witness ==
    /\ socket.pc # "idle"
    /\ socket.rx = 3
    /\ Len(socket.sent) = 3
    /\ socket.sent[1].op = "new-battle" /\ socket.sent[1].uuid = "m1"
    /\ socket.sent[2].op = "battle-update" /\ socket.sent[2].uuid = "m1"
    /\ socket.sent[3].op = "new-battle" /\ socket.sent[3].uuid = "m2"
    /\ \E b \in socket.battle : b.uuid = "m2" /\ b.status = "ongoing"

\* The ids of the chat messages a socket has sent, in the order sent.
ClaimDelivered(sent) == SelectSeq(sent, LAMBDA f : f.op = "new-message")

\* C20: a send on the Room is possible in every state of the socket; a
\* socket whose receiver finds that events it had not taken were released
\* skips to the oldest retained event, sends nothing for the lost ones,
\* stays in the loop with close stage running, and the chat messages it
\* sends keep the order in which they were sent on the Room.
C20_LaggedSocketGoesOn ==
    [][ /\ tx.tail < MaxLagEvents =>
              ENABLED RoomSend(NewMessageEvent(tx.tail + 1), MaxLagEvents)
        /\ ( /\ socket.pc \in { "select", "parked" }
            /\ socket.rx < tx.tail - RoomCapacity
            /\ HandleRx(TRUE) ) =>
              /\ socket'.rx = tx.tail - RoomCapacity
              /\ socket'.sent = socket.sent
              /\ socket'.pc = "select"
              /\ socket'.close_stage = "running"
        /\ socket'.pc # "idle" =>
              /\ socket'.close_stage = "running"
              /\ socket'.pc # "exited"
              /\ LET ids == ClaimDelivered(socket'.sent)
                 IN  /\ \A i, j \in DOMAIN ids : i < j => ids[i].message < ids[j].message
                     /\ \A i \in DOMAIN ids : ids[i].message <= socket'.rx
      ]_vars

\* The socket delivered message 1, fell behind while 17 more were sent, lost
\* message 2 and went on with message 3; it is still running.
C20_Witness ==
    /\ socket.pc \in { "select", "close", "heartbeat", "timeout", "read", "parked" }
    /\ socket.close_stage = "running"
    /\ tx.tail = RoomCapacity + 2
    /\ Len(socket.sent) = 2
    /\ socket.sent[1].op = "new-message" /\ socket.sent[1].message = 1
    /\ socket.sent[2].op = "new-message" /\ socket.sent[2].message = 3
    /\ socket.rx = 3

\* C21: the frames a socket has handed to the transport keep their order,
\* each new frame going behind them; the ack of a heartbeat is enqueued in
\* the step that parses the heartbeat (unless the transport refuses it and
\* the read fails), behind the messages of the events the task had taken
\* from the Room by then and, the order being kept, before the message of
\* every event it takes afterwards.
C21_EnqueueOrder ==
    [][ /\ \/ socket'.sent = socket.sent
           \/ /\ Len(socket'.sent) = Len(socket.sent) + 1
              /\ SubSeq(socket'.sent, 1, Len(socket.sent)) = socket.sent
        /\ ( /\ socket.pc = "read"
            /\ socket.inbox # << >>
            /\ Head(socket.inbox).kind = "heartbeat"
            /\ Head(socket.inbox).seq > ClaimHighest(socket.sent)
            /\ \E ok \in BOOLEAN : PollRead(ok) ) =>
              /\ \/ socket'.sent = Append(socket.sent, HeartbeatAck(Head(socket.inbox).seq))
                 \/ socket'.sent = socket.sent /\ socket'.result = "err"
              /\ socket'.rx = socket.rx
              /\ \A i \in DOMAIN socket.sent :
                     socket.sent[i].op = "new-message" => socket.sent[i].message <= socket.rx
        /\ ClaimReceives("new-message") =>
              /\ ClaimEvent.message = socket.rx + 1
              /\ \/ socket'.sent = Append(socket.sent, ServerMessage("new-message", ClaimEvent))
                 \/ socket'.sent = socket.sent /\ HandleRx(FALSE)
      ]_vars

\* Message 1 was on the channel before the socket parsed heartbeat 1, yet
\* the task took it afterwards: the ack is first on the transport, then
\* message 1, then the ack of heartbeat 2, then message 2.
C21_Witness ==
    /\ socket.pc # "idle"
    /\ socket.sent = << HeartbeatAck(1),
                        ServerMessage("new-message", NewMessageEvent(1)),
                        HeartbeatAck(2),
                        ServerMessage("new-message", NewMessageEvent(2)) >>
    /\ socket.rx = 2

\* C22: a create request with a short id that matches no player is answered
\* with missing-participant and the first such id, and leaves the store,
\* the Room's current match and the channel as they were; any other create
\* request stores the match, ongoing, with one participant row per
\* requested participant and publishes it as the Room's current match.
C22_CreateAllOrNothing ==
    [][ \A m \in Battles, bt \in BetTimes, pl \in CreateLists :
          ( response'.op = "create" /\ CreateBattle(m, bt, pl) ) =>
             LET missing == { i \in DOMAIN pl : pl[i].id \notin Players }
             IN  IF missing # {}
                 THEN /\ battle' = battle
                      /\ current_battle' = current_battle
                      /\ published' = << >>
                      /\ response'.code = "missing-participant"
                      /\ \E i \in missing : /\ response'.id = pl[i].id
                                            /\ \A j \in missing : i <= j
                 ELSE /\ DOMAIN battle' = DOMAIN battle \cup { m }
                      /\ \A other \in DOMAIN battle : battle'[other] = battle[other]
                      /\ battle'[m].status = "ongoing"
                      /\ battle'[m].closed_at = now + bt
                      /\ Len(battle'[m].participants) = Len(pl)
                      /\ \A i \in DOMAIN pl :
                            /\ battle'[m].participants[i].player = pl[i].id
                            /\ battle'[m].participants[i].team = pl[i].team
                            /\ battle'[m].participants[i].finish_time = None
                            /\ ~ battle'[m].participants[i].no_contest
                      /\ current_battle' = { BattleData(m, battle'[m]) }
                      /\ published' = << UpdateBattleEvent(m, battle'[m]) >>
                      /\ response' = [ op |-> "create", code |-> "ok" ]
      ]_vars

\* While m1 is the Room's current match, a create request that named p1 and
\* the unknown zz was refused: only m1 is stored and it is still current.
C22_Witness ==
    /\ response = [ op |-> "create", code |-> "missing-participant", id |-> "zz" ]
    /\ DOMAIN battle = { "m1" }
    /\ current_battle = { BattleData("m1", battle["m1"]) }
    /\ published = << >>

\* C23: an update request on an ongoing match that carries no status, or
\* the status ongoing, changes no match, participant, wager or balance and
\* publishes no event on the Room.
C23_UnchangedStatusIsNoOp ==
    [][ \A m \in DOMAIN battle, st \in { None, Some("ongoing") } :
          ( /\ response'.op = "update"
            /\ battle[m].status = "ongoing"
            /\ UpdateBattle(m, st) ) =>
             /\ battle' = battle
             /\ wager' = wager
             /\ user' = user
             /\ published' = << >>
      ]_vars

\* The number of participants of match m that have a rating.
ClaimRated(m) == Cardinality(RatingsOf(mmr, battle[m].participants))

\* C24 as stated: a status update changes the rating, deviation or
\* volatility of a player only when the new status is concluded and more
\* than one participant of the match has a rating.
C24_RatingsOnlyWhenConcluded ==
    [][ \A m \in Battles, st \in StatusRequests :
          UpdateBattle(m, st) /\ mmr'.player # mmr.player
             => st = Some("concluded") /\ ClaimRated(m) > 1 ]_vars

\* C24 amended: a status update changes the rating, deviation or volatility
\* of a player only when the new status is concluded or cancelled and more
\* than one participant of the match has a rating; with any other request,
\* or with at most one rated participant, no player row changes.
C24_RatingsOnlyWhenEnded ==
    [][ \A m \in Battles, st \in StatusRequests :
          UpdateBattle(m, st) /\ mmr'.player # mmr.player
             => /\ st \in { Some("concluded"), Some("cancelled") }
                /\ ClaimRated(m) > 1 ]_vars

\* A rating has moved although no match was ever concluded and no rating
\* period was ever closed: the update that cancelled a match rated it.
C24_Witness ==
    /\ response = Response("update", "ok")
    /\ Len(mmr.rating_period) = 1
    /\ \A m \in DOMAIN battle : battle[m].status # "concluded"
    /\ \E m \in DOMAIN battle : battle[m].status = "cancelled"
    /\ \E p \in Players : mmr.player[p].rating # Defaults.rating

\* C25: closed_at of a match never increases, and when the status of a
\* match changes away from ongoing it becomes min(closed_at, now).
C25_ClosedAtNeverIncreases ==
    [][ \A m \in DOMAIN battle :
          /\ m \in DOMAIN battle'
          /\ battle'[m].closed_at <= battle[m].closed_at
          /\ battle[m].status = "ongoing" /\ battle'[m].status # "ongoing"
                => battle'[m].closed_at = Min(battle[m].closed_at, now) ]_vars

\* A match was ended after its bet window had closed: the last request
\* was the update of the match one second after closed_at.
C25_Witness ==
    /\ response = Response("update", "ok")
    /\ \E m \in DOMAIN battle :
          /\ battle[m].status # "ongoing"
          /\ battle[m].closed_at < now
          /\ current_battle = Some(BattleData(m, battle[m]))

\* C26: a placement update on an ongoing match stores the submitted finish
\* time over any earlier value and returns the participant with that same
\* finish time; on a match that is not ongoing it is rejected with
\* already-concluded and the finish times stay as they are.
C26_PlacementStoresAndReturns ==
    [][ /\ \A req \in placing, ft \in { Some(1), Some(2) } :
             PlacementWrite(req, ft) /\ battle[req.uuid].status = "ongoing"
                => /\ battle'[req.uuid].participants[req.participant_id].finish_time = ft
                   /\ response'.finish_time = ft
        /\ response' = Response("placement", "already-concluded")
             => battle' = battle ]_vars

\* The rating periods ordered by started_at are consecutive: no two start
\* together, and each but the first starts one period length after another.
ClaimConsecutive(periods) ==
    /\ \A i, j \in DOMAIN periods : i # j => periods[i] # periods[j]
    /\ \A i \in DOMAIN periods :
          \/ \A j \in DOMAIN periods : periods[i] <= periods[j]
          \/ \E j \in DOMAIN periods : periods[i] = periods[j] + MmrPeriod

\* The newest of the periods is open at time t.
ClaimOpen(periods, t) ==
    \A i \in DOMAIN periods : t - periods[i] < MmrPeriod
        \/ \E j \in DOMAIN periods : periods[j] > periods[i]

\* C27: under any interleaving of the rating period job and the rating
\* updates of ended matches the rating periods are consecutive (the gap of
\* two neighbours is the period length: no gap, no duplicate), and when a
\* rollover returns the newest period is open.
C27_PeriodsConsecutive ==
    [][ /\ ClaimConsecutive(mmr'.rating_period)
        /\ JobWrite => ClaimOpen(mmr'.rating_period, job.now)
        /\ \A m \in Battles, st \in StatusRequests :
              UpdateBattle(m, st) /\ mmr'.rating_period # mmr.rating_period
                 => ClaimOpen(mmr'.rating_period, now) ]_vars

\* C28: after every rating write, by the update of an ended match or by the
\* period rollover, the stored deviation of every player is at most the
\* configured default deviation.
C28_DeviationAtMostDefault ==
    \A p \in Players :
        /\ mmr.player[p].deviation <= Defaults.deviation
        /\ mmr.rating[p] # None => Unwrap(mmr.rating[p]).deviation <= Defaults.deviation

\* The characters the reference normalisation keeps as they are.
ClaimKept == { "a", "b", "7", "_", "-" }

\* The reference normalisation: walk the characters in order, keep ASCII
\* lowercase letters, digits, '_' and '-', lower-case ASCII uppercase
\* letters, drop every other character.
RECURSIVE ClaimReference(_)
ClaimReference(chars) ==
    IF chars = << >> THEN << >>
    ELSE ( IF Head(chars) \in ClaimKept THEN << Head(chars) >>
           ELSE IF Head(chars) = "B" THEN << "b" >>
           ELSE << >> ) \o ClaimReference(Tail(chars))

\* C29: for every input to_username_lossy returns the reference
\* normalisation; so the output holds only username characters, and the
\* function applied to its output returns the output.
C29_LossyIsReference ==
    lossy.out # None =>
        LET out == Unwrap(lossy.out)
        IN  /\ out = Encode(ClaimReference(lossy.username))
            /\ out = to_username_lossy(lossy.username)
            /\ \A i \in DOMAIN out : out[i] \in ClaimKept
            /\ to_username_lossy(Decode(out)) = out

\* The call has returned for an input that starts with a character to
\* drop, goes on with an uppercase letter and ends with a valid character.
C29_Witness ==
    /\ lossy.username = << "~", "B", "a" >>
    /\ lossy.out = Some(<< "b", "a" >>)

\* C30: for any interleaving of concurrent update_battle calls the match
\* events are on the channel in the order in which the cell was written;
\* when all calls have finished, the cell holds the match of the last
\* event published.
C30_EventsInWriteOrder ==
    calls.pending = {} =>
        /\ Len(tx.buffer) = Len(calls.written)
        /\ \A i \in DOMAIN tx.buffer : tx.buffer[i].battle = calls.written[i]
        /\ tx.buffer # << >> =>
               current_battle = Some(tx.buffer[Len(tx.buffer)].battle)

\* C31: nothing of a mutation whose transaction did not commit reaches the
\* Room: when an update fails, or a create rolls back, the current-match
\* cell is not replaced and no event is published.
C31_NothingBeforeCommit ==
    [][ /\ \A st \in StatusRequests, at \in FailurePoints :
             UpdateBattleAborted("m1", st, at)
                => published' = << >> /\ current_battle' = current_battle
        /\ response'.op = "create" /\ response'.code = "missing-participant"
             => published' = << >> /\ current_battle' = current_battle ]_vars

\* The server has put a close frame of its own decision on a running
\* socket in this step: 1002 of the heartbeat timeout or the frame of
\* send_close.
ClaimServerCloses ==
    /\ socket.close_stage = "running"
    /\ Len(socket'.sent) = Len(socket.sent) + 1
    /\ socket'.sent[Len(socket'.sent)] \in { CloseFrame(1002), CloseFrame(1000) }

\* C32 as stated: whenever the server decides to close a running socket,
\* by heartbeat timeout or by send_close, the close stage becomes flushing.
C32_ServerCloseFlushes ==
    [][ ClaimServerCloses => socket'.close_stage = "flushing" ]_vars

\* C32 amended: the heartbeat timeout takes a running socket to flushing;
\* send_close sends and flushes its frame itself and takes the socket
\* straight to wait; either way the wait deadline is armed, at now +
\* close_timeout, only in a step that follows the flush of the close frame.
C32_ServerCloseFlushesOrWaits ==
    [][ /\ ClaimServerCloses =>
              \/ /\ socket'.sent[Len(socket'.sent)] = CloseFrame(1002)
                 /\ socket'.close_stage = "flushing"
              \/ /\ SendClose(1000, TRUE)
                 /\ socket'.close_stage = "wait"
        /\ socket.close_stage # "wait" /\ socket'.close_stage = "wait" =>
              /\ socket'.closed_server
              /\ socket'.wait = now + CloseTimeout
              /\ socket.close_stage = "flushing" \/ SendClose(1000, TRUE) ]_vars

\* send_close has closed a socket that was running: its frame is the only
\* close frame sent and the socket waits for the client's close.
C32_Witness ==
    /\ socket.close_stage = "wait"
    /\ socket.sent # << >>
    /\ socket.sent[Len(socket.sent)] = CloseFrame(1000)
    /\ socket.wait = now + CloseTimeout

C34_WaitConsumesFrames ==
    [][ socket.close_stage = "wait" =>
          /\ socket'.close_stage \in { "wait", "closing" }
          /\ socket'.sent = socket.sent
          /\ socket'.result # "msg"
          /\ ( /\ socket.inbox # << >>
               /\ socket'.inbox = Tail(socket.inbox)
               /\ Head(socket.inbox).kind = "close" ) =>
                  socket'.close_stage = "closing"
          /\ ( \E ok \in BOOLEAN : PollTimeout(ok) ) =>
                  now < socket.heartbeater.timeout ]_vars

\* C35: the fractional period that update_rating gets from
\* next_rating_period lies within [0, 1] of a period and is the elapsed part
\* of the newest period, the one open once every expired period is closed.
C35_FractionOfNewestPeriod ==
    \A n \in next_rating_period(mmr, battle, now) :
        /\ 0 <= n.period.period_elapsed
        /\ n.period.period_elapsed <= MmrPeriod
        /\ n.period.period_elapsed = Min(now - n.period.started_at, MmrPeriod)

\* C36: each match is settled at most once. A step that adjusts a balance
\* or publishes a balance-change event takes a match from ongoing to
\* concluded, it publishes at most one such event for a user, and a match
\* that has left ongoing keeps its status, so no later step settles it again.
C36_SettledAtMostOnce ==
    [][ LET evs == { i \in DOMAIN published' : published'[i].type = "mobiums-change" }
        IN  /\ ( evs # {} \/ user' # user ) =>
                   \E m \in DOMAIN battle :
                       /\ battle[m].status = "ongoing"
                       /\ battle'[m].status = "concluded"
            /\ \A i, j \in evs : published'[i].user_id = published'[j].user_id => i = j
            /\ \A m \in DOMAIN battle :
                   battle[m].status # "ongoing" => battle'[m].status = battle[m].status ]_vars

\* The matches written to the current-match cell after the socket read
\* its snapshot: all of them when the snapshot was empty, else those
\* written after the match of the snapshot.
WrittenAfterRead ==
    { calls.written[i] :
        i \in { k \in DOMAIN calls.written :
                  \/ socket.battle = None
                  \/ \E n \in 1 .. k - 1 : calls.written[n] = Unwrap(socket.battle) } }

\* C37: a socket that has subscribed finds on the channel, at or after the
\* position of its receiver, the event of every update_battle call that
\* wrote the cell after the socket's snapshot read and has sent its event.
C37_NoUpdateMissed ==
    socket.pc \notin { "idle", "subscribing" } =>
        \A data \in WrittenAfterRead \ calls.pending :
            \E i \in DOMAIN tx.buffer :
                /\ tx.buffer[i] = UpdateBattleOf(data)
                /\ Oldest(tx) + i - 1 >= socket.rx

\* The place of a close stage in the order running, flushing, wait,
\* closing, closed.
StageRank(stage) ==
    CASE stage = "running" -> 0
      [] stage = "flushing" -> 1
      [] stage = "wait" -> 2
      [] stage = "closing" -> 3
      [] stage = "closed" -> 4

\* The close frames among the frames handed to the transport.
CloseFramesSent(s) == { i \in DOMAIN s.sent : s.sent[i].op = "close" }

\* C39: the close stage never moves back in the order running, flushing,
\* wait, closing, closed; a closed socket stays closed and its reads return
\* end; at most one close frame is handed to the transport; and the
\* heartbeat timer is acted on only while the socket is running.
C39_CloseStageForward ==
    [][ /\ StageRank(socket'.close_stage) >= StageRank(socket.close_stage)
        /\ socket.close_stage = "closed" /\ socket'.result # socket.result =>
               socket'.result = "end"
        /\ Cardinality(CloseFramesSent(socket')) <= 1
        /\ ( /\ \E ok \in BOOLEAN : PollTimeout(ok)
             /\ now >= socket.heartbeater.timeout ) =>
                socket.close_stage = "running" ]_vars

\* C40: no finish time is written once the match has left ongoing, and no
\* participant has both a finish time and no_contest set.
C40_NoFinishTimeAfterEnd ==
    [][ \A m \in DOMAIN battle :
          /\ battle[m].status # "ongoing" =>
                \A i \in DOMAIN battle[m].participants :
                    battle'[m].participants[i].finish_time =
                        battle[m].participants[i].finish_time
          /\ \A i \in DOMAIN battle'[m].participants :
                ~ ( /\ battle'[m].participants[i].no_contest
                    /\ battle'[m].participants[i].finish_time # None ) ]_vars

====
